---------------------------- MODULE Spec2Model ----------------------------
(***************************************************************************)
(* The recorder page of the Echoes extension (Recorder component, in its   *)
(* visualization variant and its plain variant) together with the          *)
(* saveRecording operation of utils/storage.ts, as a state machine.        *)
(*                                                                         *)
(* One behaviour is one load of recorder.html in a production build: the   *)
(* mount effect runs once.  Every await of startRecording is a suspension  *)
(* point; the synchronous code between two awaits is one action.  React    *)
(* state updates made in one continuation are committed together           *)
(* (automatic batching of React 18).                                       *)
(***************************************************************************)
EXTENDS Integers, Sequences, FiniteSets, Bags, TLC

(***************************************************************************)
(* Bounds of the model.                                                    *)
(***************************************************************************)
MaxAdvances == 11       \* clock steps taken in one page load
MaxStops == 2           \* clicks on "Stop Recording" in one page load
MaxProbeSeconds == 3700 \* largest argument formatDuration is applied to

(***************************************************************************)
(* Program constants.                                                      *)
(***************************************************************************)
NUM_BARS == 5
FftSize == 256
LevelCeiling == 180
TimesliceMs == 1000
DurationIntervalMs == 1000
MsPerSecond == 1000
AssembleDelayMs == 100
ParseRadix == 10
ToStringRadix == 10
SecondsPerHour == 3600
SecondsPerMinute == 60
PadWidth == 2
MaxByte == 255

NULL == "<null>"

VARIABLES
    variant,          \* "viz": the recorder with the level analyzer, "plain": without
    search,           \* window.location.search: the raw URL parameters
    probe,            \* a pure function of the page applied to an argument
    pc,               \* position of the mount effect / startRecording
    status,           \* useState status
    duration,         \* useState duration
    error,            \* useState error (NULL, or a message, possibly empty)
    audioLevels,      \* useState audioLevels (viz), numerators over LevelDen
    mediaRecorderRef, \* mediaRecorderRef.current: NULL or the encoder
    encoder,          \* the MediaRecorder object
    chunksRef,        \* chunksRef.current
    streamRef,        \* streamRef.current: NULL or a stream name
    micStreamRef,     \* (streamRef as any).micStream
    audioContextRef,  \* audioContextRef.current
    analyserRef,      \* analyserRef.current (viz)
    animationRef,     \* animationRef.current (viz)
    startTimeRef,     \* startTimeRef.current
    tracks,           \* the media tracks obtained, each "none", "live" or "ended"
    audioContext,     \* the AudioContext: its state and the connections made in it
    rafPending,       \* a requestAnimationFrame callback is scheduled
    tickDue,          \* next firing time of the duration interval
    timers,           \* pending setTimeout callbacks of stopRecording, in order
    saves,            \* saveRecording calls in flight
    store,            \* the IndexedDB object store 'recordings'
    clock,            \* Date.now()
    log,              \* observation: the calls the page has issued, in order
    recordings,       \* Recordings page: useState recordings
    loading,          \* Recordings page: useState loading
    apiAvailable,     \* Recordings page: useState apiAvailable (NULL: unknown)
    processingId,     \* Recordings page: useState processingId
    selectedRecording,\* Recordings page: useState selectedRecording
    importing,        \* Recordings page: useState importing
    calls,            \* Recordings page: the handlers awaiting the network or media
    txq,              \* Recordings page: the handlers awaiting a store transaction
    mounted,          \* Recordings page: the mount effect has run
    started,          \* Recordings page: handlers the user has started (clicks)
    health,           \* the last answer of GET /health the page has received
    sessions,         \* development build: the startRecording invocations' own objects
    twin,             \* the two recorder variants side by side: the page not on turn
    audioDevices,     \* Popup: useState audioDevices
    selectedDevice,   \* Popup: useState selectedDevice
    captureMode,      \* Popup: useState captureMode
    micPermission,    \* Popup: useState micPermission
    isStarting,       \* Popup: useState isStarting
    currentPlatform,  \* Popup: useState currentPlatform
    isCheckingTab,    \* Popup: useState isCheckingTab
    popupPc,          \* Popup: the page and the positions of its async functions
    windows           \* the recorder windows the popup has opened: their queries

libVars   == <<recordings, loading, apiAvailable, processingId, selectedRecording,
               importing, calls, txq, mounted, started, health>>
\* What the recorder page never writes.
popupVars == <<audioDevices, selectedDevice, captureMode, micPermission, isStarting,
               currentPlatform, isCheckingTab, popupPc, windows>>
paramVars == <<variant, search, probe, libVars, sessions, twin, popupVars>>
uiVars    == <<status, duration, error, audioLevels>>
refVars   == <<mediaRecorderRef, chunksRef, streamRef, micStreamRef,
               audioContextRef, analyserRef, animationRef, startTimeRef>>
envVars   == <<encoder, tracks, audioContext, rafPending, tickDue, timers,
               saves, store, clock>>
vars      == <<paramVars, pc, uiVars, refVars, envVars, log>>


(***************************************************************************)
(* Pure helpers.                                                           *)
(***************************************************************************)
Min(a, b) == IF a <= b THEN a ELSE b

Digits == <<"0", "1", "2", "3", "4", "5", "6", "7", "8", "9">>
IsDigit(c) == \E i \in 1..Len(Digits) : Digits[i] = c
DigitVal(c) == (CHOOSE i \in 1..Len(Digits) : Digits[i] = c) - 1

\* parseInt(s, 10) on a string given as its sequence of characters: leading
\* blanks are skipped, one sign is read, then the longest run of digits; with
\* no digit the result is NaN.
RECURSIVE SkipBlanks(_)
SkipBlanks(s) == IF s # <<>> /\ Head(s) = " " THEN SkipBlanks(Tail(s)) ELSE s

RECURSIVE ReadDigits(_, _, _)
ReadDigits(s, acc, seen) ==
    IF s # <<>> /\ IsDigit(Head(s))
    THEN ReadDigits(Tail(s), acc * ParseRadix + DigitVal(Head(s)), TRUE)
    ELSE [isNaN |-> ~seen, val |-> acc]

parseInt(s) ==
    LET t == SkipBlanks(s)
        neg == t # <<>> /\ Head(t) = "-"
        u == IF t # <<>> /\ Head(t) \in {"-", "+"} THEN Tail(t) ELSE t
        r == ReadDigits(u, 0, FALSE)
    IN  [isNaN |-> r.isNaN, val |-> IF neg THEN 0 - r.val ELSE r.val]

\* Number.prototype.toString() of a natural number, as its characters.
RECURSIVE toString(_)
toString(n) ==
    IF n < ToStringRadix THEN <<Digits[n + 1]>>
    ELSE toString(n \div ToStringRadix) \o <<Digits[(n % ToStringRadix) + 1]>>

\* String.prototype.padStart(width, ch).
RECURSIVE PadStart(_, _, _)
PadStart(str, width, ch) ==
    IF Len(str) >= width THEN str ELSE PadStart(<<ch>> \o str, width, ch)

formatDurationUnpadded(seconds) ==
    LET hrs == seconds \div SecondsPerHour
        mins == (seconds % SecondsPerHour) \div SecondsPerMinute
        secs == seconds % SecondsPerMinute
    IN  IF hrs > 0
        THEN toString(hrs) \o <<":">> \o PadStart(toString(mins), PadWidth, "0")
             \o <<":">> \o PadStart(toString(secs), PadWidth, "0")
        ELSE toString(mins) \o <<":">> \o PadStart(toString(secs), PadWidth, "0")

\* formatDuration of the Recorder component (and of utils/storage.ts).
formatDuration(seconds) ==
    LET hrs == seconds \div SecondsPerHour
        mins == (seconds % SecondsPerHour) \div SecondsPerMinute
        secs == seconds % SecondsPerMinute
    IN  IF hrs > 0
        THEN toString(hrs) \o <<":">> \o PadStart(toString(mins), PadWidth, "0")
             \o <<":">> \o PadStart(toString(secs), PadWidth, "0")
        ELSE PadStart(toString(mins), PadWidth, "0") \o <<":">>
             \o PadStart(toString(secs), PadWidth, "0")

\* The duration the interval callback computes from the clock.
ElapsedSeconds(now, startedAt) == (now - startedAt) \div MsPerSecond

\* URLSearchParams.get: the value, or null when the parameter is absent.
Absent(empty) == [present |-> FALSE, value |-> empty]
Given(v) == [present |-> TRUE, value |-> v]

getParamsNoTabCheck(q) ==
    LET mode == IF q.mode.present THEN q.mode.value ELSE NULL
        deviceId == IF q.deviceId.present /\ q.deviceId.value # ""
                    THEN q.deviceId.value ELSE ""
        tabId == parseInt(IF q.tabId.present /\ q.tabId.value # <<>>
                          THEN q.tabId.value ELSE <<"0">>)
    IN  IF mode = NULL \/ mode = ""
        THEN [ok |-> FALSE, mode |-> NULL, deviceId |-> "", tabId |-> 0]
        ELSE [ok |-> TRUE, mode |-> mode, deviceId |-> deviceId, tabId |-> tabId.val]

\* getParams of the Recorder component.
getParams(q) ==
    LET mode == IF q.mode.present THEN q.mode.value ELSE NULL
        deviceId == IF q.deviceId.present /\ q.deviceId.value # ""
                    THEN q.deviceId.value ELSE ""
        tabId == parseInt(IF q.tabId.present /\ q.tabId.value # <<>>
                          THEN q.tabId.value ELSE <<"0">>)
        noMode == mode = NULL \/ mode = ""
        noTab == tabId.isNaN \/ tabId.val = 0
    IN  IF noMode \/ noTab
        THEN [ok |-> FALSE, mode |-> NULL, deviceId |-> "", tabId |-> 0]
        ELSE [ok |-> TRUE, mode |-> mode, deviceId |-> deviceId, tabId |-> tabId.val]

params == getParams(search)

\* The branch conditions of startRecording.
TabInclusiveTabOnly(p) == p.mode = "tab"
UsesMixerAnyBoth(p) == p.mode = "both"

TabInclusive(p) == p.mode = "tab" \/ p.mode = "both"
UsesMixer(p) == p.mode = "both" /\ p.deviceId # ""

\* Blob: the concatenation of the chunks, in order; its size is their total.
RECURSIVE BlobSize(_)
BlobSize(b) == IF b = <<>> THEN 0 ELSE Head(b).size + BlobSize(Tail(b))

\* The timeout callback of stopRecording persists iff the blob is non-empty.
ShouldPersistAlways(blob) == TRUE

ShouldPersist(blob) == BlobSize(blob) > 0

\* updateAudioLevels: NUM_BARS band averages of the frequency snapshot, each
\* min(1, avg / 180).  A level is kept exactly, as its numerator over LevelDen.
FrequencyBinCount == FftSize \div 2
BandStep == FrequencyBinCount \div NUM_BARS
LevelDen == BandStep * LevelCeiling
RECURSIVE BandSum(_, _, _)
BandSum(data, j, end) ==
    IF j >= end THEN 0 ELSE data[j] + BandSum(data, j + 1, end)
LevelsUnclamped(data) ==
    [i \in 1..NUM_BARS |->
        LET start == (i - 1) * BandStep
        IN  BandSum(data, start, start + BandStep)]

Levels(data) ==
    [i \in 1..NUM_BARS |->
        LET start == (i - 1) * BandStep
        IN  Min(LevelDen, BandSum(data, start, start + BandStep))]
ZeroLevels == [i \in 1..NUM_BARS |-> 0]

\* The frequency snapshots the analyser hands out in the model.
SnapshotBytes == {0, 90, 255}
Snapshots == {[j \in 0..(FrequencyBinCount - 1) |-> b] : b \in SnapshotBytes}

(***************************************************************************)
(* The inputs of a page load.                                              *)
(***************************************************************************)
ModeParams == {Absent(""), Given(""), Given("tab"), Given("mic"), Given("both"),
               Given("video")}
DeviceParams == {Absent(""), Given(""), Given("mic-1")}
TabIdParams == {Absent(<<>>), Given(<<>>), Given(<<"0">>), Given(<<"x">>),
                Given(<<" ", "-", "0">>), Given(<<"4", "2">>), Given(<<"7", "x">>)}
Variants == {"viz", "plain"}

\* The query strings of the model: every combination, the tabId with a
\* trailing letter only in a tab-only query without deviceId.
Searches ==
    {q \in [mode : ModeParams, deviceId : DeviceParams, tabId : TabIdParams] :
        q.tabId = Given(<<"7", "x">>) =>
            q.mode = Given("tab") /\ q.deviceId = Absent("")}

\* Messages of the errors the platform rejects with; the message of an
\* OverconstrainedError is the empty string.
PlatformMessages == {"", "rejected"}

NoEncoder == [state |-> "none", input |-> NULL, timeslice |-> 0,
              emitted |-> 0, chunkDue |-> 0, finalPending |-> FALSE]
NoContext == [state |-> "none", edges |-> {}]

NoProbe == [fn |-> "none", arg |-> 0, out |-> <<>>, done |-> TRUE]

\* The mount effect runs once in a production build; in a development build
\* React.StrictMode mounts the component, simulates an unmount and mounts it
\* again, so an effect with no cleanup has run twice.
EffectRuns == 2
Invocations == 1..EffectRuns

\* Date.now() as the page loads: some time after the epoch, so that a
\* timestamp taken from the clock differs from the 0 a ref starts with.
PageLoadedAt == 500

\* No second page beside this one.
NoTwin == [phase |-> "alone"]

\* currentPlatform before a supported page is found (null in the source).
NoPlatform == [name |-> "", platform |-> NULL]

\* The Popup component as constructed: its useState initial values, no effect
\* run yet, no recorder window opened.
InitPopup ==
    /\ audioDevices = <<>>
    /\ selectedDevice = ""
    /\ captureMode = "both"
    /\ micPermission = "unknown"
    /\ isStarting = FALSE
    /\ currentPlatform = NoPlatform
    /\ isCheckingTab = TRUE
    /\ popupPc = [page |-> "constructed", tab |-> "idle", devices |-> "idle",
                  start |-> "idle", mode |-> "both", device |-> "",
                  tabId |-> 0]
    /\ windows = <<>>

\* The objects local to one invocation of startRecording.
NoSession == [pc |-> "idle", encoder |-> NoEncoder, audioContext |-> NoContext,
              tracks |-> [tabAudio |-> "none", tabVideo |-> "none",
                          micAudio |-> "none"]]
NoSessions == [i \in Invocations |-> NoSession]

\* The page as the Recorder component is constructed.
InitPage ==
    /\ pc = "mount"
    /\ status = "starting"
    /\ duration = 0
    /\ error = NULL
    /\ audioLevels = ZeroLevels
    /\ mediaRecorderRef = NULL
    /\ encoder = NoEncoder
    /\ chunksRef = <<>>
    /\ streamRef = NULL
    /\ micStreamRef = NULL
    /\ audioContextRef = NULL
    /\ analyserRef = NULL
    /\ animationRef = NULL
    /\ startTimeRef = 0
    /\ tracks = [tabAudio |-> "none", tabVideo |-> "none", micAudio |-> "none"]
    /\ audioContext = NoContext
    /\ rafPending = FALSE
    /\ tickDue = 0
    /\ timers = <<>>
    /\ saves = <<>>
    /\ clock = PageLoadedAt
    /\ log = <<>>
    /\ sessions = NoSessions

\* null where an id (a tuple) or a Recording (a record) is expected.
NoId == <<>>
NoRecording == [id |-> NoId]

NoReport == [status |-> "none", model_loaded |-> NULL]

\* The Recordings component as it is constructed.
InitLibrary ==
    /\ recordings = <<>>
    /\ loading = TRUE
    /\ apiAvailable = NULL
    /\ processingId = NoId
    /\ selectedRecording = NoRecording
    /\ importing = FALSE
    /\ calls = EmptyBag
    /\ txq = <<>>
    /\ mounted = FALSE
    /\ started = 0
    /\ health = NoReport

Init ==
    /\ variant \in Variants
    /\ search \in Searches
    /\ probe = NoProbe
    /\ store = {}
    /\ InitPage
    /\ InitLibrary
    /\ twin = NoTwin
    /\ InitPopup

(***************************************************************************)
(* startRecording.                                                         *)
(***************************************************************************)
Call(op) == [op |-> op, blob |-> <<>>]

StartCatchNoStatus(msg) ==
    /\ error' = msg
    /\ status' = status
    /\ pc' = "done"

\* The catch block of startRecording: (err as Error).message becomes the
\* error, and the session is stopped.  Nothing else is touched.
StartCatch(msg) ==
    /\ error' = msg
    /\ status' = "stopped"
    /\ pc' = "done"

\* The mount effect: getParams, then either 'Invalid parameters' or the first
\* synchronous stretch of startRecording, up to its first await.
Mount ==
    /\ pc = "mount"
    /\ IF ~params.ok
       THEN /\ error' = "Invalid parameters"
            /\ pc' = "rejected"
            /\ log' = log
       ELSE /\ error' = error
            /\ IF TabInclusive(params)
               THEN /\ pc' = "awaitStreamId"
                    /\ log' = Append(log, Call("getMediaStreamId"))
               ELSE /\ pc' = "awaitMicOnly"
                    /\ log' = Append(log, Call("getUserMedia(mic)"))
    /\ UNCHANGED <<paramVars, status, duration, audioLevels, refVars, envVars>>

\* chrome.tabCapture.getMediaStreamId resolved: the tab stream is requested.
StreamIdResolved ==
    /\ pc = "awaitStreamId"
    /\ pc' = "awaitTabStream"
    /\ log' = Append(log, Call("getUserMedia(tab)"))
    /\ UNCHANGED <<paramVars, uiVars, refVars, envVars>>

\* Any awaited acquisition call rejected: control goes to the catch block.
AcquisitionRejected ==
    /\ pc \in {"awaitStreamId", "awaitTabStream", "awaitMicStream", "awaitMicOnly"}
    /\ \E msg \in PlatformMessages : StartCatch(msg)
    /\ log' = Append(log, Call("catch"))
    /\ UNCHANGED <<paramVars, duration, audioLevels, refVars, envVars>>

\* setupAnalyser (visualization variant only): the analyser is attached and
\* updateAudioLevels runs once, publishing levels and scheduling itself.
SetupAnalyser(snap) ==
    IF variant = "viz"
    THEN /\ analyserRef' = "analyser"
         /\ audioLevels' = Levels(snap)
         /\ animationRef' = "frame"
         /\ rafPending' = TRUE
    ELSE UNCHANGED <<analyserRef, audioLevels, animationRef, rafPending>>

AnalyserEdge(source) == IF variant = "viz" THEN {<<source, "analyser">>} ELSE {}

MixerEdgesMixToSpeakers ==
    IF variant = "viz"
    THEN {<<"tabSource", "merger">>, <<"micSource", "merger">>,
          <<"merger", "destination">>, <<"merger", "speakers">>}
         \cup AnalyserEdge("merger")
    ELSE {<<"tabSource", "destination">>, <<"tabSource", "speakers">>,
          <<"micSource", "destination">>, <<"micSource", "speakers">>}

\* The connections made in the AudioContext, by branch and variant.
MixerEdges ==
    IF variant = "viz"
    THEN {<<"tabSource", "merger">>, <<"micSource", "merger">>,
          <<"merger", "destination">>, <<"tabSource", "speakers">>}
         \cup AnalyserEdge("merger")
    ELSE {<<"tabSource", "destination">>, <<"tabSource", "speakers">>,
          <<"micSource", "destination">>}
TabOnlyEdges == {<<"tabSource", "speakers">>} \cup AnalyserEdge("tabSource")
MicOnlyEdges == AnalyserEdge("micSource")

\* The outcomes of creating and starting the encoder.
EncoderOutcomes == {"ok", "constructorThrows", "startThrows"}

\* The same stretch with startTimeRef taken before the start call.
CreateEncoderStampFirst(finalStream, outcome, msg) ==
    /\ chunksRef' = <<>>
    /\ IF outcome = "constructorThrows"
       THEN /\ UNCHANGED <<mediaRecorderRef, encoder, startTimeRef, tickDue>>
            /\ StartCatch(msg)
            /\ log' = Append(log, Call("catch"))
       ELSE IF outcome = "startThrows"
       THEN /\ mediaRecorderRef' = "recorder"
            /\ encoder' = [NoEncoder EXCEPT !.state = "inactive", !.input = finalStream]
            /\ startTimeRef' = clock
            /\ tickDue' = tickDue
            /\ StartCatch(msg)
            /\ log' = Append(log, Call("catch"))
       ELSE /\ mediaRecorderRef' = "recorder"
            /\ encoder' = [state |-> "recording", input |-> finalStream,
                           timeslice |-> TimesliceMs, emitted |-> 0,
                           chunkDue |-> clock + TimesliceMs, finalPending |-> FALSE]
            /\ startTimeRef' = clock
            /\ status' = "recording"
            /\ tickDue' = clock + DurationIntervalMs
            /\ error' = error
            /\ pc' = "done"
            /\ log' = Append(log, Call("MediaRecorder.start"))

\* The last synchronous stretch of startRecording: chunksRef is reset, the
\* MediaRecorder is created on finalStream and started with the timeslice,
\* startTimeRef is taken and the status becomes recording; a throw of the
\* constructor or of start() goes to the catch block.
CreateEncoder(finalStream, outcome, msg) ==
    /\ chunksRef' = <<>>
    /\ IF outcome = "constructorThrows"
       THEN /\ UNCHANGED <<mediaRecorderRef, encoder, startTimeRef, tickDue>>
            /\ StartCatch(msg)
            /\ log' = Append(log, Call("catch"))
       ELSE IF outcome = "startThrows"
       THEN /\ mediaRecorderRef' = "recorder"
            /\ encoder' = [NoEncoder EXCEPT !.state = "inactive", !.input = finalStream]
            /\ UNCHANGED <<startTimeRef, tickDue>>
            /\ StartCatch(msg)
            /\ log' = Append(log, Call("catch"))
       ELSE /\ mediaRecorderRef' = "recorder"
            /\ encoder' = [state |-> "recording", input |-> finalStream,
                           timeslice |-> TimesliceMs, emitted |-> 0,
                           chunkDue |-> clock + TimesliceMs, finalPending |-> FALSE]
            /\ startTimeRef' = clock
            /\ status' = "recording"
            /\ tickDue' = clock + DurationIntervalMs
            /\ error' = error
            /\ pc' = "done"
            /\ log' = Append(log, Call("MediaRecorder.start"))

\* The tab getUserMedia resolved: the video track is stopped; then either the
\* microphone is requested (mode both with a deviceId) or the tab-only graph
\* is built and the encoder started on the tab stream.
TabStreamResolved ==
    /\ pc = "awaitTabStream"
    /\ tracks' = [tracks EXCEPT !.tabAudio = "live", !.tabVideo = "ended"]
    /\ IF UsesMixer(params)
       THEN /\ pc' = "awaitMicStream"
            /\ log' = Append(log, Call("getUserMedia(mic)"))
            /\ UNCHANGED <<uiVars, refVars, encoder, audioContext, rafPending, tickDue>>
       ELSE /\ audioContext' = [state |-> "running", edges |-> TabOnlyEdges]
            /\ audioContextRef' = "context"
            /\ streamRef' = "tabStream"
            /\ micStreamRef' = micStreamRef
            /\ \E snap \in Snapshots : SetupAnalyser(snap)
            /\ \E outcome \in EncoderOutcomes, msg \in PlatformMessages :
                   CreateEncoder("tabStream", outcome, msg)
    /\ UNCHANGED <<paramVars, duration, timers, saves, store, clock>>

\* The microphone getUserMedia of mode both resolved: the mixing graph is
\* built and the encoder started on the destination's stream.
MicStreamResolved ==
    /\ pc = "awaitMicStream"
    /\ tracks' = [tracks EXCEPT !.micAudio = "live"]
    /\ audioContext' = [state |-> "running", edges |-> MixerEdges]
    /\ audioContextRef' = "context"
    /\ streamRef' = "tabStream"
    /\ micStreamRef' = "micStream"
    /\ \E snap \in Snapshots : SetupAnalyser(snap)
    /\ \E outcome \in EncoderOutcomes, msg \in PlatformMessages :
           CreateEncoder("destinationStream", outcome, msg)
    /\ UNCHANGED <<paramVars, duration, timers, saves, store, clock>>

\* The same with the visualization recorder leaving streamRef unset.
MicOnlyResolvedVizNoStreamRef ==
    /\ pc = "awaitMicOnly"
    /\ tracks' = [tracks EXCEPT !.micAudio = "live"]
    /\ IF variant = "viz"
       THEN /\ audioContext' = [state |-> "running", edges |-> MicOnlyEdges]
            /\ audioContextRef' = "context"
       ELSE UNCHANGED <<audioContext, audioContextRef>>
    /\ streamRef' = IF variant = "viz" THEN streamRef ELSE "micStream"
    /\ micStreamRef' = micStreamRef
    /\ \E snap \in Snapshots : SetupAnalyser(snap)
    /\ \E outcome \in EncoderOutcomes, msg \in PlatformMessages :
           CreateEncoder("micStream", outcome, msg)
    /\ UNCHANGED <<paramVars, duration, timers, saves, store, clock>>

\* The microphone getUserMedia of the mic-only branch resolved.
MicOnlyResolved ==
    /\ pc = "awaitMicOnly"
    /\ tracks' = [tracks EXCEPT !.micAudio = "live"]
    /\ IF variant = "viz"
       THEN /\ audioContext' = [state |-> "running", edges |-> MicOnlyEdges]
            /\ audioContextRef' = "context"
       ELSE UNCHANGED <<audioContext, audioContextRef>>
    /\ streamRef' = "micStream"
    /\ micStreamRef' = micStreamRef
    /\ \E snap \in Snapshots : SetupAnalyser(snap)
    /\ \E outcome \in EncoderOutcomes, msg \in PlatformMessages :
           CreateEncoder("micStream", outcome, msg)
    /\ UNCHANGED <<paramVars, duration, timers, saves, store, clock>>

(***************************************************************************)
(* The encoder's callbacks.                                                *)
(***************************************************************************)
ChunkSizes == {0, 1}

OnDataAvailablePrepend(chunks, data) ==
    IF data.size > 0 THEN <<data>> \o chunks ELSE chunks

\* mediaRecorder.ondataavailable: a non-empty chunk is appended.
OnDataAvailable(chunks, data) == IF data.size > 0 THEN Append(chunks, data) ELSE chunks

\* A timeslice has elapsed while the encoder records: one chunk is delivered.
ChunkReady ==
    /\ encoder.state = "recording"
    /\ clock >= encoder.chunkDue
    /\ \E size \in ChunkSizes :
           chunksRef' = OnDataAvailable(chunksRef,
                                        [seq |-> encoder.emitted + 1, size |-> size])
    /\ encoder' = [encoder EXCEPT !.emitted = @ + 1, !.chunkDue = @ + encoder.timeslice]
    /\ UNCHANGED <<paramVars, pc, uiVars, mediaRecorderRef, streamRef, micStreamRef,
                   audioContextRef, analyserRef, animationRef, startTimeRef,
                   tracks, audioContext, rafPending, tickDue, timers, saves, store,
                   clock, log>>

\* The chunk that stop() flushes is delivered by a task queued after stop()
\* returned: it lands at some later turn of the event loop.
FinalChunk ==
    /\ encoder.finalPending
    /\ \E size \in ChunkSizes :
           chunksRef' = OnDataAvailable(chunksRef,
                                        [seq |-> encoder.emitted + 1, size |-> size])
    /\ encoder' = [encoder EXCEPT !.emitted = @ + 1, !.finalPending = FALSE]
    /\ UNCHANGED <<paramVars, pc, uiVars, mediaRecorderRef, streamRef, micStreamRef,
                   audioContextRef, analyserRef, animationRef, startTimeRef,
                   tracks, audioContext, rafPending, tickDue, timers, saves, store,
                   clock, log>>

(***************************************************************************)
(* The recurring callbacks.                                                *)
(***************************************************************************)
\* The interval callback as a counter of ticks.
DurationTickIncrement ==
    /\ status = "recording"
    /\ clock >= tickDue
    /\ duration' = duration + 1
    /\ tickDue' = tickDue + DurationIntervalMs
    /\ UNCHANGED <<paramVars, pc, status, error, audioLevels, refVars, encoder,
                   tracks, audioContext, rafPending, timers, saves, store, clock, log>>

\* The duration effect: while the rendered status is recording, an interval
\* recomputes the duration from the clock.
DurationTick ==
    /\ status = "recording"
    /\ clock >= tickDue
    /\ duration' = ElapsedSeconds(clock, startTimeRef)
    /\ tickDue' = tickDue + DurationIntervalMs
    /\ UNCHANGED <<paramVars, pc, status, error, audioLevels, refVars, encoder,
                   tracks, audioContext, rafPending, timers, saves, store, clock, log>>

\* updateAudioLevels run as an animation-frame callback.
LevelTick ==
    /\ rafPending
    /\ IF analyserRef = NULL
       THEN /\ rafPending' = FALSE
            /\ UNCHANGED <<audioLevels, animationRef>>
       ELSE /\ \E snap \in Snapshots : audioLevels' = Levels(snap)
            /\ animationRef' = "frame"
            /\ rafPending' = TRUE
    /\ UNCHANGED <<paramVars, pc, status, duration, error, mediaRecorderRef, chunksRef,
                   streamRef, micStreamRef, audioContextRef, analyserRef, startTimeRef,
                   encoder, tracks, audioContext, tickDue, timers, saves, store,
                   clock, log>>

(***************************************************************************)
(* stopRecording.                                                          *)
(***************************************************************************)
\* The tracks of a stream.
TracksOf(stream) ==
    IF stream = "tabStream" THEN {"tabAudio", "tabVideo"}
    ELSE IF stream = "micStream" THEN {"micAudio"}
    ELSE {}

\* t.stop() on every track of the streams given.
StopTracks(tr, streams) ==
    [t \in DOMAIN tr |->
        IF \E st \in streams : t \in TracksOf(st) THEN "ended" ELSE tr[t]]

\* The render of the Recorder component: the views on the page.  A message
\* is shown when it is truthy (neither null nor the empty string).
Truthy(message) == message # NULL /\ message # ""
ViewsShown ==
    (IF status = "starting" THEN {"starting"} ELSE {})
    \cup (IF status = "recording" THEN {"recording"} ELSE {})
    \cup (IF status = "stopped" /\ ~Truthy(error) THEN {"saved"} ELSE {})
    \cup (IF Truthy(error) THEN {"error"} ELSE {})

\* The "Stop Recording" button is rendered while the status is recording.
StopButtonShown == status = "recording"

\* The calls the body of stopRecording makes, in the order of its statements.
StopStepsContextFirst ==
    (IF audioContextRef # NULL THEN <<Call("AudioContext.close")>> ELSE <<>>)
    \o (IF variant = "viz" /\ animationRef # NULL
        THEN <<Call("cancelAnimationFrame")>> ELSE <<>>)
    \o (IF mediaRecorderRef # NULL /\ encoder.state # "inactive"
        THEN <<Call("MediaRecorder.stop")>> ELSE <<>>)
    \o (IF streamRef # NULL THEN <<Call("tracks.stop")>> ELSE <<>>)
    \o <<Call("setTimeout")>>

StopSteps ==
    (IF variant = "viz" /\ animationRef # NULL
     THEN <<Call("cancelAnimationFrame")>> ELSE <<>>)
    \o (IF mediaRecorderRef # NULL /\ encoder.state # "inactive"
        THEN <<Call("MediaRecorder.stop")>> ELSE <<>>)
    \o (IF streamRef # NULL THEN <<Call("tracks.stop")>> ELSE <<>>)
    \o (IF audioContextRef # NULL THEN <<Call("AudioContext.close")>> ELSE <<>>)
    \o <<Call("setTimeout")>>

\* One click on "Stop Recording": the whole synchronous body of stopRecording,
\* ending with the setTimeout that defers the assembly.  The callback closes
\* over the duration of the render the click happened in.
StopRecording ==
    /\ StopButtonShown
    /\ Len(SelectSeq(log, LAMBDA e : e.op = "stopRecording")) < MaxStops
    /\ IF variant = "viz"
       THEN /\ rafPending' = (IF animationRef # NULL THEN FALSE ELSE rafPending)
            /\ animationRef' = NULL
            /\ analyserRef' = NULL
            /\ audioLevels' = ZeroLevels
       ELSE UNCHANGED <<rafPending, animationRef, analyserRef, audioLevels>>
    /\ encoder' = IF mediaRecorderRef # NULL /\ encoder.state # "inactive"
                  THEN [encoder EXCEPT !.state = "inactive", !.finalPending = TRUE]
                  ELSE encoder
    /\ tracks' = IF streamRef # NULL
                 THEN StopTracks(tracks, {streamRef} \cup
                                 (IF micStreamRef # NULL THEN {micStreamRef} ELSE {}))
                 ELSE tracks
    /\ IF audioContextRef # NULL
       THEN /\ audioContext' = [audioContext EXCEPT !.state = "closed"]
            /\ audioContextRef' = NULL
       ELSE UNCHANGED <<audioContext, audioContextRef>>
    /\ timers' = Append(timers, [due |-> clock + AssembleDelayMs, duration |-> duration])
    /\ log' = Append(log, Call("stopRecording")) \o StopSteps
    /\ UNCHANGED <<paramVars, pc, status, duration, error, mediaRecorderRef, chunksRef,
                   streamRef, micStreamRef, startTimeRef, tickDue, saves, store, clock>>

SettledStatusStarting == "starting"

\* The status the timeout callback sets when it is done.
SettledStatus == "stopped"

\* The timeout callback reading the duration on display when it runs.
AssembleTimeoutLiveDuration ==
    /\ timers # <<>>
    /\ clock >= Head(timers).due
    /\ timers' = Tail(timers)
    /\ LET blob == chunksRef
       IN  IF ShouldPersist(blob)
           THEN /\ saves' = Append(saves, [blob |-> blob, duration |-> duration])
                /\ log' = log \o <<[op |-> "assemble", blob |-> blob],
                                   [op |-> "saveRecording", blob |-> blob]>>
                /\ status' = status
           ELSE /\ saves' = saves
                /\ log' = Append(log, [op |-> "assemble", blob |-> blob])
                /\ status' = SettledStatus
    /\ UNCHANGED <<paramVars, pc, duration, error, audioLevels, refVars, encoder,
                   tracks, audioContext, rafPending, tickDue, store, clock>>

\* The timeout callback of stopRecording, up to its await: the chunks are
\* assembled into one blob; a non-empty blob is handed to saveRecording, an
\* empty one ends the session at once.
AssembleTimeout ==
    /\ timers # <<>>
    /\ clock >= Head(timers).due
    /\ timers' = Tail(timers)
    /\ LET blob == chunksRef
       IN  IF ShouldPersist(blob)
           THEN /\ saves' = Append(saves, [blob |-> blob, duration |-> Head(timers).duration])
                /\ log' = log \o <<[op |-> "assemble", blob |-> blob],
                                   [op |-> "saveRecording", blob |-> blob]>>
                /\ status' = status
           ELSE /\ saves' = saves
                /\ log' = Append(log, [op |-> "assemble", blob |-> blob])
                /\ status' = SettledStatus
    /\ UNCHANGED <<paramVars, pc, duration, error, audioLevels, refVars, encoder,
                   tracks, audioContext, rafPending, tickDue, store, clock>>

(***************************************************************************)
(* saveRecording (utils/storage.ts) and the rest of the timeout callback.  *)
(***************************************************************************)
RandomSuffixes == {"k3f9", "p07q"}

\* customName || `Recording ${timestamp}`: an empty name counts as none.  A
\* name is a tuple: <<text>> for a custom one, <<>> for the empty string.
NameGiven(customName) == customName.present /\ customName.value # <<>>

\* The record saveRecording builds.
NewRecording(blob, seconds, customName, now, suffix) ==
    [id |-> <<"rec", now, suffix>>,
     name |-> IF NameGiven(customName) THEN customName.value
              ELSE <<"Recording", now>>,
     blob |-> blob,
     duration |-> seconds,
     createdAt |-> now,
     size |-> BlobSize(blob),
     transcriptionStatus |-> "pending"]

RemoveAt(q, i) == SubSeq(q, 1, i - 1) \o SubSeq(q, i + 1, Len(q))

HasId(st, id) == \E r \in st : r.id = id

AddAcceptedAlways(st, rec) == TRUE

\* IDBObjectStore.add: the request fails when the key is already in the store.
AddAccepted(st, rec) == ~HasId(st, rec.id)

\* IDBObjectStore.put: the record takes the place of the one under its key.
Put(st, rec) == {r \in st : r.id # rec.id} \cup {rec}

\* saveRecording resolved: store.add put the record in the store (add fails
\* on a key already there), and the callback marks the session stopped.
SaveResolved ==
    /\ \E i \in 1..Len(saves), suffix \in RandomSuffixes :
          LET rec == NewRecording(saves[i].blob, saves[i].duration, Absent(<<>>),
                                  clock, suffix)
          IN  /\ AddAccepted(store, rec)
              /\ store' = Put(store, rec)
              /\ saves' = RemoveAt(saves, i)
    /\ status' = SettledStatus
    /\ UNCHANGED <<paramVars, pc, duration, error, audioLevels, refVars, encoder,
                   tracks, audioContext, rafPending, tickDue, timers, clock, log>>

\* saveRecording rejected (openDB or store.add failed): nothing is stored.
SaveRejected ==
    /\ \E i \in 1..Len(saves) : saves' = RemoveAt(saves, i)
    /\ error' = "Failed to save recording"
    /\ status' = SettledStatus
    /\ UNCHANGED <<paramVars, pc, duration, audioLevels, refVars, encoder,
                   tracks, audioContext, rafPending, tickDue, timers, store, clock, log>>

(***************************************************************************)
(* Time.  Nothing reads the clock before the encoder is started, and        *)
(* nothing reads it once the session has settled, so it advances only in    *)
(* between, in steps of the shortest timer.                                 *)
(***************************************************************************)
ClockStepMs == AssembleDelayMs

Advance ==
    /\ status = "recording" \/ timers # <<>>
    /\ clock + ClockStepMs <= PageLoadedAt + MaxAdvances * ClockStepMs
    /\ clock' = clock + ClockStepMs
    /\ UNCHANGED <<paramVars, pc, uiVars, refVars, encoder, tracks, audioContext,
                   rafPending, tickDue, timers, saves, store, log>>

Next ==
    \/ Mount
    \/ StreamIdResolved
    \/ TabStreamResolved
    \/ MicStreamResolved
    \/ MicOnlyResolved
    \/ AcquisitionRejected
    \/ ChunkReady
    \/ FinalChunk
    \/ DurationTick
    \/ LevelTick
    \/ StopRecording
    \/ AssembleTimeout
    \/ SaveResolved
    \/ SaveRejected
    \/ Advance

Spec == Init /\ [][Next]_vars

(***************************************************************************)
(* Observations on the log.                                                *)
(***************************************************************************)
Count(op) == Len(SelectSeq(log, LAMBDA e : e.op = op))
Issued(op) == Count(op) > 0
Assemblies == {i \in 1..Len(log) : log[i].op = "assemble"}
ModeMissing == ~search.mode.present \/ search.mode.value = ""
HasDigit(s) == \E i \in 1..Len(s) : IsDigit(s[i])
TabIdMissing == ~search.tabId.present \/ search.tabId.value = <<>>
TabIdZero ==
    /\ search.tabId.present /\ HasDigit(search.tabId.value)
    /\ \A i \in 1..Len(search.tabId.value) :
           IsDigit(search.tabId.value[i]) => search.tabId.value[i] = "0"
TabIdNonNumeric == search.tabId.present /\ ~HasDigit(search.tabId.value)
DeviceIdMissing == ~search.deviceId.present \/ search.deviceId.value = ""
ModeIsBoth == search.mode.present /\ search.mode.value = "both"

(***************************************************************************)
(* The claims.                                                             *)
(***************************************************************************)

\* C1: stop is effective exactly once: however many times stopRecording is
\* invoked on a recording session, one artifact is assembled and saveRecording
\* is called at most once.
C1_StopOnce ==
    Issued("stopRecording") => Count("assemble") <= 1 /\ Count("saveRecording") <= 1

C3_NoLiveTrackWhenStopped ==
    status = "stopped" => \A t \in DOMAIN tracks : tracks[t] # "live"

\* C4: in a two-source acquisition, once a step after the opening of the tab
\* stream has failed, the tab stream's tracks are stopped.
C4_HalfAcquiredTornDown ==
    (UsesMixer(params) /\ Issued("catch") /\ Issued("getUserMedia(mic)")
        /\ tracks.tabAudio # "none")
    => tracks.tabAudio = "ended"

\* C5: when every assembly found the chunk sequence empty, the session is
\* stopped with error unset and saveRecording was never called.
C5_EmptyStop ==
    (Assemblies # {} /\ \A i \in Assemblies : log[i].blob = <<>>) =>
        /\ status = "stopped"
        /\ error = NULL
        /\ ~Issued("saveRecording")
        /\ saves = <<>> /\ store = {}

C5_Witness ==
    /\ Issued("assemble") /\ chunksRef = <<>> /\ timers = <<>>
    /\ encoder.emitted > 0 /\ ~encoder.finalPending

\* C6: a session that has stopped after assembling a non-empty artifact has
\* called saveRecording exactly once, and every record created is pending.
C6_CreateOnce ==
    (status = "stopped" /\ timers = <<>> /\ saves = <<>>
        /\ \E i \in Assemblies : log[i].blob # <<>>)
    => /\ Count("saveRecording") = 1
       /\ \A r \in store : r.transcriptionStatus = "pending"

\* C7: the status only moves forward: starting -> recording -> stopped or
\* starting -> stopped; recording never returns to starting and stopped never
\* changes.
C7_StatusForward ==
    [][/\ status = "stopped" => status' = "stopped"
       /\ status = "recording" => status' # "starting"
       /\ status # status' =>
              <<status, status'>> \in {<<"starting", "recording">>,
                                       <<"starting", "stopped">>,
                                       <<"recording", "stopped">>}]_vars

C7_Witness == status = "stopped" /\ timers # <<>> /\ Issued("MediaRecorder.start")

\* C8: in every reachable state, error set implies status stopped (parameter
\* validation, acquisition failure and save failure alike).
C8_ErrorImpliesStopped == error # NULL => status = "stopped"

\* C9 (as stated): a session with mode both and an empty or missing deviceId
\* never starts: no acquisition call, no encoder start, and an error at once.
C9_BothWithoutDeviceNeverStarts ==
    (ModeIsBoth /\ DeviceIdMissing /\ pc # "mount") =>
        /\ ~Issued("getMediaStreamId")
        /\ ~Issued("getUserMedia(tab)")
        /\ ~Issued("getUserMedia(mic)")
        /\ ~Issued("MediaRecorder.start")
        /\ error # NULL

\* C9 (amended): a session with mode both, an empty or missing deviceId and a
\* valid tabId is not rejected at parameter validation: it starts with the tab
\* acquisition and never issues a microphone acquisition call.
C9_BothWithoutDeviceStartsTabOnly ==
    (ModeIsBoth /\ DeviceIdMissing /\ params.ok /\ pc # "mount") =>
        /\ Issued("getMediaStreamId")
        /\ ~Issued("getUserMedia(mic)")
        /\ error # "Invalid parameters"
        /\ pc # "rejected"

C9_Witness ==
    /\ ModeIsBoth /\ DeviceIdMissing /\ Issued("MediaRecorder.start")
    /\ status = "stopped" /\ store # {}

\* C10: with mode both and no deviceId, startRecording does what it does for
\* mode tab: no microphone stream is requested or held, the encoder's input is
\* the tab stream, the graph is the tab-only graph (tab audio to the speakers)
\* and the session does not fail on the missing deviceId.
C10_BothWithoutDeviceIsTabOnly ==
    (params.ok /\ params.mode = "both" /\ params.deviceId = "") =>
        /\ ~Issued("getUserMedia(mic)")
        /\ tracks.micAudio = "none"
        /\ micStreamRef = NULL
        /\ pc \notin {"awaitMicStream", "awaitMicOnly", "rejected"}
        /\ encoder.state # "none" => encoder.input = "tabStream"
        /\ audioContext.state # "none" =>
               /\ <<"tabSource", "speakers">> \in audioContext.edges
               /\ \A e \in audioContext.edges : e[1] = "tabSource"
        /\ status = "recording" => streamRef = "tabStream"
        /\ (status = "recording" /\ ~Issued("stopRecording")) =>
               /\ audioContext.state = "running"
               /\ tracks.tabAudio = "live"

C10_Witness ==
    /\ params.ok /\ params.mode = "both" /\ params.deviceId = ""
    /\ status = "recording" /\ encoder.input = "tabStream"
    /\ <<"tabSource", "speakers">> \in audioContext.edges

C12_RequiredIff ==
    pc # "mount" =>
        LET accepted == pc # "rejected"
            mode == IF search.mode.present THEN search.mode.value ELSE NULL
            validTab == ~(TabIdMissing \/ TabIdZero \/ TabIdNonNumeric)
        IN  /\ (mode = "mic" /\ ~DeviceIdMissing) => accepted
            /\ (mode = "mic" /\ DeviceIdMissing) => ~accepted
            /\ (mode = "tab" /\ validTab) => accepted
            /\ mode \notin {"tab", "mic", "both"} => ~accepted

(***************************************************************************)
(* Routing in the audio graph.                                             *)
(***************************************************************************)
RECURSIVE ReachFrom(_, _)
ReachFrom(S, edges) ==
    LET N == S \cup {e[2] : e \in {f \in edges : f[1] \in S}}
    IN  IF N = S THEN S ELSE ReachFrom(N, edges)
Path(a, b) == b \in ReachFrom({a}, audioContext.edges)
RawMode == IF search.mode.present THEN search.mode.value ELSE NULL

\* The encoder's input carries a source's audio when the input is that
\* source's own stream, or the destination node's stream and the source has a
\* path to the destination node.
FeedsEncoder(source) ==
    \/ encoder.input = "tabStream" /\ source = "tabSource"
    \/ encoder.input = "micStream" /\ source = "micSource"
    \/ encoder.input = "destinationStream" /\ Path(source, "destination")

C14_NoChunkAfterAssembly == \A i \in Assemblies : log[i].blob = chunksRef

IsPrefix(a, b) == Len(a) <= Len(b) /\ SubSeq(b, 1, Len(a)) = a

\* C15: the chunk sequence is append-only and keeps the delivery order: a
\* step leaves it alone or appends the chunk just delivered, the sequence
\* numbers in it increase, and an artifact assembled in a step is the whole
\* sequence in that order.
C15_ChunksAppendOnly ==
    /\ [](\A i, j \in 1..Len(chunksRef) : i < j => chunksRef[i].seq < chunksRef[j].seq)
    /\ [][/\ IsPrefix(chunksRef, chunksRef')
          /\ Len(chunksRef') <= Len(chunksRef) + 1
          /\ chunksRef' # chunksRef =>
                 chunksRef'[Len(chunksRef')].seq = encoder'.emitted
          /\ \A i \in (Len(log) + 1)..Len(log') :
                 log'[i].op = "assemble" => log'[i].blob = chunksRef]_vars

C15_Witness ==
    /\ Len(chunksRef) = 2
    /\ \E i \in Assemblies : log[i].blob = chunksRef

\* C16: whenever the session is stopped, the AudioContext, if one was
\* created, has been closed.
C16_ContextClosedWhenStopped == status = "stopped" => audioContext.state # "running"

\* C17: once saveRecording has rejected, the session is stopped with the
\* error set and the store holds no record of the session.
C17_SaveFailureLeavesNoRecord ==
    error = "Failed to save recording" =>
        /\ status = "stopped"
        /\ Truthy(error)
        /\ store = {}

\* C18: the page shows exactly one view, given by the status alone: the
\* starting view iff starting, the recording view iff recording, the stopped
\* view (saved or error) iff stopped; the error view never appears together
\* with the starting or the recording view.
C18_OneViewPerStatus ==
    /\ "starting" \in ViewsShown <=> status = "starting"
    /\ "recording" \in ViewsShown <=> status = "recording"
    /\ ({"saved", "error"} \cap ViewsShown # {}) <=> status = "stopped"
    /\ Cardinality(ViewsShown) = 1

----------------------------------------------------------------------------
\* The pure functions of the Recorder component, each applied once to an
\* argument drawn from a bounded set.

\* A session's start instants and the times it has been held open (ms).
ProbeStarts == {0, 1, 999, 1000}
ProbeHeld == {0, 999, 1000, 59999, 60000, 64999, 65000, 65001, 65999, 66000}

ConstantSnapshot(b) == [j \in 0..(FrequencyBinCount - 1) |-> b]
StepSnapshot(lo, hi, split) ==
    [j \in 0..(FrequencyBinCount - 1) |-> IF j < split THEN lo ELSE hi]

ProbeBytes == {0, 1, LevelCeiling - 1, LevelCeiling, LevelCeiling + 1, MaxByte}
ProbeSplits == {BandStep, 2 * BandStep + 1, NUM_BARS * BandStep}

\* getByteFrequencyData fills a Uint8Array of frequencyBinCount bytes.
ProbeSnapshots ==
    {ConstantSnapshot(b) : b \in 0..MaxByte}
        \cup {StepSnapshot(lo, hi, sp) : lo \in ProbeBytes, hi \in ProbeBytes,
                                          sp \in ProbeSplits}

ProbeInputs ==
    {[fn |-> "formatDuration", arg |-> n, out |-> <<>>, done |-> FALSE] :
        n \in 0..MaxProbeSeconds}
    \cup {[fn |-> "display", arg |-> [startedAt |-> st, now |-> st + h],
           out |-> <<>>, done |-> FALSE] : st \in ProbeStarts, h \in ProbeHeld}
    \cup {[fn |-> "updateAudioLevels", arg |-> d, out |-> <<>>, done |-> FALSE] :
        d \in ProbeSnapshots}

PureInit ==
    /\ variant = "viz"
    /\ search = [mode |-> Given("tab"), deviceId |-> Absent(""),
                 tabId |-> Given(<<"4", "2">>)]
    /\ probe \in ProbeInputs
    /\ store = {}
    /\ InitPage
    /\ InitLibrary
    /\ twin = NoTwin
    /\ InitPopup

\* The timer text: formatDuration(duration).
ProbeFormatDuration ==
    /\ probe.fn = "formatDuration"
    /\ ~probe.done
    /\ probe' = [probe EXCEPT !.out = formatDuration(probe.arg), !.done = TRUE]
    /\ UNCHANGED <<variant, search, libVars, sessions, twin, popupVars, pc, uiVars, refVars,
                   envVars, log>>

\* One interval callback followed by the render of the timer.
ProbeDisplay ==
    /\ probe.fn = "display"
    /\ ~probe.done
    /\ LET secs == ElapsedSeconds(probe.arg.now, probe.arg.startedAt)
       IN  probe' = [probe EXCEPT !.out = [seconds |-> secs,
                                           text |-> formatDuration(secs)],
                                  !.done = TRUE]
    /\ UNCHANGED <<variant, search, libVars, sessions, twin, popupVars, pc, uiVars, refVars,
                   envVars, log>>

\* One animation frame's setAudioLevels(levels).
ProbeLevels ==
    /\ probe.fn = "updateAudioLevels"
    /\ ~probe.done
    /\ probe' = [probe EXCEPT !.out = Levels(probe.arg), !.done = TRUE]
    /\ UNCHANGED <<variant, search, libVars, sessions, twin, popupVars, pc, uiVars, refVars,
                   envVars, log>>

PureNext ==
    \/ ProbeFormatDuration
    \/ ProbeDisplay
    \/ ProbeLevels

PureSpec == PureInit /\ [][PureNext]_vars

----------------------------------------------------------------------------
(***************************************************************************)
(* The Recordings page (recordings/Recordings.tsx) over the object store   *)
(* of utils/storage.ts.  An async handler is a call; its pc is the await it *)
(* is suspended at.  A call awaiting the store is in `txq`, in the order in *)
(* which the transactions were created: IndexedDB runs the transactions of *)
(* one store in that order, read-only ones side by side.  A call awaiting   *)
(* anything else is in the bag `calls`.  A store request succeeds unless the rule *)
(* of the request itself (key already present, record not found) says      *)
(* otherwise.  Times before 0 are times before the page was loaded.        *)
(***************************************************************************)
MaxCalls == 3           \* handlers the user starts (clicks) in one page load

SUPPORTED_AUDIO_TYPES ==
    {"audio/webm", "audio/mp3", "audio/mpeg", "audio/wav", "audio/ogg",
     "audio/flac", "audio/m4a", "audio/x-m4a", "audio/mp4"}
SupportedExtensions == {"webm", "mp3", "wav", "ogg", "flac", "m4a", "mp4"}

\* !SUPPORTED_AUDIO_TYPES.includes(file.type) && !file.name.match(...) skips.
Supported(file) ==
    file.type \in SUPPORTED_AUDIO_TYPES \/ file.ext \in SupportedExtensions

\* file.name.replace(/\.[^/.]+$/, ''): the name without its extension.
StripExtension(file) == file.base

FileBlob == <<[seq |-> 1, size |-> 1]>>

LibFiles ==
    {[base |-> <<"talk">>, ext |-> "webm", type |-> "audio/webm"],
     [base |-> <<>>, ext |-> "webm", type |-> ""],
     [base |-> <<"notes">>, ext |-> "txt", type |-> "text/plain"]}

FileSelections ==
    {<<f>> : f \in LibFiles}
        \cup {<<[base |-> <<"notes">>, ext |-> "txt", type |-> "text/plain"],
                [base |-> <<"talk">>, ext |-> "webm", type |-> "audio/webm"]>>}

AudioDurations == {3}

\* record.transcription, undefined (NULL) when the field is not there.
TextOf(r) == IF "transcription" \in DOMAIN r THEN r.transcription ELSE NULL

\* { ...recording, ...updates }
Merge(recording, updates) ==
    [k \in DOMAIN recording \cup DOMAIN updates |->
        IF k \in DOMAIN updates THEN updates[k] ELSE recording[k]]

\* store.get(id): request.result || null
Get(st, id) == IF HasId(st, id) THEN CHOOSE r \in st : r.id = id ELSE NoRecording

SuffixOrder == <<"k3f9", "p07q">>
SuffixRank(x) == CHOOSE i \in 1..Len(SuffixOrder) : SuffixOrder[i] = x

\* The order of the createdAt index: by createdAt, then by primary key.
IndexLess(a, b) ==
    \/ a.createdAt < b.createdAt
    \/ a.createdAt = b.createdAt /\ SuffixRank(a.id[3]) < SuffixRank(b.id[3])

\* getRecordings: index.openCursor(null, 'prev'), the newest record first.
RECURSIVE getRecordings(_)
getRecordings(st) ==
    IF st = {} THEN <<>>
    ELSE LET newest == CHOOSE r \in st : \A o \in st \ {r} : IndexLess(o, r)
         IN  <<newest>> \o getRecordings(st \ {newest})

\* Records saved before the page was loaded.
OldRecording(now, extra) ==
    Merge(NewRecording(FileBlob, 1, Absent(<<>>), now, "k3f9"), extra)

Transcribed == [transcription |-> "old", transcriptionStatus |-> "completed"]

LibStores == {{}, {OldRecording(-2, Transcribed), OldRecording(-1, <<>>)}}

\* GET /health: the answers of the transcription server, and no answer.
\* model_loaded is "true", "false" or missing; status "rejected" stands for a
\* fetch or a response.json() that threw.
HealthReports ==
    {[status |-> "ok", model_loaded |-> "true"],
     [status |-> "ok", model_loaded |-> "false"],
     [status |-> "ok", model_loaded |-> NULL],
     [status |-> "loading", model_loaded |-> "true"]}
HealthOutcomes == HealthReports \cup {[status |-> "rejected", model_loaded |-> NULL]}

\* POST /transcribe: the markdown, a non-success response, a transport failure.
TranscribeOutcomes == {"ok", "notOk", "rejected"}

\* `before` observes the transcription text the record had in the store when
\* the transcription request was sent.
NewCall(fn, at, arg) ==
    [fn |-> fn, pc |-> at, arg |-> arg, read |-> NoRecording, resp |-> NULL,
     before |-> NULL]

\* A handler is invoked; it runs on from an await; it returns or throws.
Start(bag, c) == bag (+) SetToBag({c})
Finish(bag, c) == bag (-) SetToBag({c})

recorderVars == <<variant, search, probe, sessions, twin, popupVars, pc, uiVars, refVars,
                  encoder, tracks,
                  audioContext, rafPending, tickDue, timers, saves, clock>>

LibInit ==
    /\ variant = "viz"
    /\ search = [mode |-> Given("tab"), deviceId |-> Absent(""),
                 tabId |-> Given(<<"4", "2">>)]
    /\ probe = NoProbe
    /\ store \in LibStores
    /\ InitPage
    /\ InitLibrary
    /\ twin = NoTwin
    /\ InitPopup

ReadSteps == {"getRecordings", "upd1.get", "upd2.get", "upd3.get"}

\* The transaction of txq[i] can run: a read once only reads are ahead of it,
\* a write once nothing is.
Ready(i) ==
    IF txq[i].pc \in ReadSteps THEN \A j \in 1..(i - 1) : txq[j].pc \in ReadSteps
    ELSE i = 1

\* useEffect(() => { loadRecordings(); checkApiHealth() }, [])
LibMount ==
    /\ ~mounted
    /\ mounted' = TRUE
    /\ txq' = <<NewCall("load", "getRecordings", NoRecording)>>
    /\ calls' = Start(calls, NewCall("health", "fetch", NoRecording))
    /\ UNCHANGED <<recorderVars, store, log, recordings, loading, apiAvailable,
                   processingId, selectedRecording, importing, started, health>>

\* loadRecordings after its await.
LoadSettled ==
    \E i \in 1..Len(txq), ok \in BOOLEAN :
        /\ Ready(i)
        /\ txq[i].fn = "load"
        /\ recordings' = IF ok THEN getRecordings(store) ELSE recordings
        /\ loading' = FALSE
        /\ txq' = RemoveAt(txq, i)
        /\ UNCHANGED <<recorderVars, store, log, apiAvailable, processingId,
                       selectedRecording, importing, calls, mounted, started, health>>

\* The refresh button: checkApiHealth.
ClickRefresh ==
    /\ mounted
    /\ started < MaxCalls
    /\ started' = started + 1
    /\ calls' = Start(calls, NewCall("health", "fetch", NoRecording))
    /\ UNCHANGED <<recorderVars, store, log, recordings, loading, apiAvailable,
                   processingId, selectedRecording, importing, txq, mounted, health>>

checkApiHealthStatusOnly(outcome) ==
    IF outcome.status = "ok" THEN "true" ELSE "false"

\* checkApiHealth: data.status === 'ok' && data.model_loaded, false on a throw.
checkApiHealth(outcome) ==
    IF outcome.status = "rejected" THEN "false"
    ELSE IF outcome.status = "ok" THEN outcome.model_loaded ELSE "false"

\* if (!apiAvailable): null, undefined and false are falsy.
Available(v) == v = "true"

\* checkApiHealth after its awaits (fetch, then response.json()).
HealthSettled ==
    \E c \in BagToSet(calls), outcome \in HealthOutcomes :
        /\ c.fn = "health" /\ c.pc = "fetch"
        /\ health' = outcome
        /\ apiAvailable' = checkApiHealth(outcome)
        /\ calls' = Finish(calls, c)
        /\ UNCHANGED <<recorderVars, store, log, recordings, loading, processingId,
                       selectedRecording, importing, txq, mounted, started>>

\* Clicking a recording card: setSelectedRecording(recording).
SelectRecording ==
    \E k \in 1..Len(recordings) :
        /\ started < MaxCalls
        /\ started' = started + 1
        /\ selectedRecording' = recordings[k]
        /\ UNCHANGED <<recorderVars, store, log, recordings, loading, apiAvailable,
                       processingId, importing, calls, txq, mounted, health>>

\* handleProcess up to its first await.  The handler keeps the recording and
\* the selectedRecording of the render it was created in.
handleProcess(recording) ==
    /\ started < MaxCalls
    /\ started' = started + 1
    /\ IF ~Available(apiAvailable)
       THEN /\ log' = Append(log, Call("alert"))
            /\ UNCHANGED <<txq, processingId>>
       ELSE /\ txq' = Append(txq, NewCall("process", "upd1.get",
                            [recording |-> recording, selected |-> selectedRecording,
                             avail |-> apiAvailable]))
            /\ processingId' = recording.id
            /\ log' = log
    /\ UNCHANGED <<recorderVars, store, recordings, loading, apiAvailable,
                   selectedRecording, importing, calls, mounted, health>>

\* The transcribe button of a card in the list.
ClickProcess ==
    \E k \in 1..Len(recordings) :
        /\ processingId # recordings[k].id
        /\ recordings[k].transcriptionStatus # "processing"
        /\ handleProcess(recordings[k])

\* The 'Transcribe Now' button of the detail panel.
ClickProcessDetail ==
    /\ selectedRecording # NoRecording
    /\ ~Truthy(TextOf(selectedRecording))
    /\ Available(apiAvailable)
    /\ processingId # selectedRecording.id
    /\ handleProcess(selectedRecording)

\* The updates handleProcess passes to its three updateRecording calls.
UpdatesAt(at, resp) ==
    CASE at \in {"upd1.get", "upd1.put"} -> [transcriptionStatus |-> "processing"]
      [] at \in {"upd2.get", "upd2.put"} ->
            [transcription |-> resp, transcriptionStatus |-> "completed"]
      [] at \in {"upd3.get", "upd3.put"} -> [transcriptionStatus |-> "error"]

\* prev.map(r => r.id === id ? { ...r, ...updates } : r)
MapRecordings(recs, id, updates) ==
    IF recs = <<>> THEN <<>>
    ELSE [k \in 1..Len(recs) |->
            IF recs[k].id = id THEN Merge(recs[k], updates) ELSE recs[k]]

\* updateRecording up to the put: getRecording has answered and the put is
\* requested.  Not found throws; the first call is outside the try, the second
\* is caught (and the catch starts the third), the third leaves through finally.
UpdateGet ==
    \E i \in 1..Len(txq) :
        LET c == txq[i]
            id == c.arg.recording.id
            rest == RemoveAt(txq, i)
        IN  /\ Ready(i)
            /\ c.fn = "process"
            /\ c.pc \in {"upd1.get", "upd2.get", "upd3.get"}
            /\ IF HasId(store, id)
               THEN /\ txq' = Append(rest,
                                [c EXCEPT !.read = Get(store, id),
                                          !.pc = CASE c.pc = "upd1.get" -> "upd1.put"
                                                   [] c.pc = "upd2.get" -> "upd2.put"
                                                   [] c.pc = "upd3.get" -> "upd3.put"])
                    /\ processingId' = processingId
               ELSE /\ txq' = IF c.pc = "upd2.get"
                              THEN Append(rest, [c EXCEPT !.pc = "upd3.get"])
                              ELSE rest
                    /\ processingId' = IF c.pc = "upd3.get" THEN NoId ELSE processingId
            /\ UNCHANGED <<recorderVars, store, log, recordings, loading, apiAvailable,
                           selectedRecording, importing, calls, mounted, started,
                           health>>

\* updateRecording from the put on: store.put({ ...recording, ...updates })
\* with the recording that getRecording returned.
updateRecording(st, read, updates) == Put(st, Merge(read, updates))

\* The put of updateRecording has succeeded, and handleProcess runs on to its
\* next await (the fetch) or to its end.
UpdatePut ==
    /\ txq # <<>>
    /\ LET c == Head(txq)
           id == c.arg.recording.id
           updates == UpdatesAt(c.pc, c.resp)
       IN  /\ c.fn = "process"
           /\ c.pc \in {"upd1.put", "upd2.put", "upd3.put"}
           /\ store' = updateRecording(store, c.read, updates)
           /\ txq' = Tail(txq)
           /\ calls' = IF c.pc = "upd1.put"
                        THEN Start(calls, [c EXCEPT !.pc = "fetch",
                                                    !.before = TextOf(Get(store', id))])
                        ELSE calls
           /\ recordings' = IF c.pc = "upd1.put" THEN recordings
                            ELSE MapRecordings(recordings, id, updates)
           /\ processingId' = IF c.pc = "upd1.put" THEN processingId ELSE NoId
           /\ selectedRecording' =
                 IF c.pc = "upd2.put" /\ c.arg.selected.id = id
                 THEN Merge(c.arg.recording, updates)
                 ELSE selectedRecording
    /\ UNCHANGED <<recorderVars, log, loading, apiAvailable, importing,
                   mounted, started, health>>

\* POST /transcribe has settled (fetch, then response.text()): the markdown,
\* or a non-success response or a transport failure, which throw to the catch;
\* either way the next updateRecording is called.
TranscribeSettled ==
    \E c \in BagToSet(calls), outcome \in TranscribeOutcomes :
        /\ c.fn = "process" /\ c.pc = "fetch"
        /\ calls' = Finish(calls, c)
        /\ txq' = Append(txq,
                [c EXCEPT !.pc = IF outcome = "ok" THEN "upd2.get" ELSE "upd3.get",
                          !.resp = IF outcome = "ok" THEN "md" ELSE NULL])
        /\ UNCHANGED <<recorderVars, store, log, recordings, loading, apiAvailable,
                       processingId, selectedRecording, importing, mounted, started,
                       health>>

\* handleDelete once confirm() has said yes, up to its await.
ClickDelete ==
    \E k \in 1..Len(recordings) :
        /\ started < MaxCalls
        /\ started' = started + 1
        /\ txq' = Append(txq, NewCall("delete", "delete",
                        [recording |-> recordings[k], recordings |-> recordings,
                         selected |-> selectedRecording]))
        /\ UNCHANGED <<recorderVars, store, log, recordings, loading, apiAvailable,
                       processingId, selectedRecording, importing, calls, mounted,
                       health>>

\* recordings.filter(r => r.id !== id)
FilterOut(recs, id) == SelectSeq(recs, LAMBDA r : r.id # id)

\* deleteRecording has succeeded; the list the handler was created with is
\* filtered and published.
DeleteSettled ==
    /\ txq # <<>>
    /\ LET c == Head(txq)
           id == c.arg.recording.id
       IN  /\ c.fn = "delete" /\ c.pc = "delete"
           /\ store' = {r \in store : r.id # id}
           /\ recordings' = FilterOut(c.arg.recordings, id)
           /\ selectedRecording' = IF c.arg.selected.id = id THEN NoRecording
                                   ELSE selectedRecording
           /\ txq' = Tail(txq)
    /\ UNCHANGED <<recorderVars, log, loading, apiAvailable, processingId,
                   importing, calls, mounted, started, health>>

\* The loop of handleFileSelect passes over the files it does not support.
RECURSIVE SkipUnsupported(_)
SkipUnsupported(files) ==
    IF files # <<>> /\ ~Supported(Head(files)) THEN SkipUnsupported(Tail(files))
    ELSE files

\* handleFileSelect up to its first await (getAudioDuration of the first
\* supported file), or to its end when no file is supported.
ClickImport ==
    \E files \in FileSelections :
        LET rest == SkipUnsupported(files)
        IN  /\ mounted
            /\ ~importing
            /\ started < MaxCalls
            /\ started' = started + 1
            /\ importing' = (rest # <<>>)
            /\ calls' = IF rest = <<>> THEN calls
                         ELSE Start(calls, NewCall("import", "getAudioDuration",
                                                   [files |-> rest]))
            /\ UNCHANGED <<recorderVars, store, log, recordings, loading, apiAvailable,
                           processingId, selectedRecording, txq, mounted, health>>

\* getAudioDuration has resolved and saveRecording has built its record and
\* requested the add.
ImportDuration ==
    \E c \in BagToSet(calls), seconds \in AudioDurations, suffix \in RandomSuffixes :
        LET file == Head(c.arg.files)
        IN  /\ c.fn = "import" /\ c.pc = "getAudioDuration"
            /\ calls' = Finish(calls, c)
            /\ txq' = Append(txq,
                   [c EXCEPT !.pc = "saveRecording",
                             !.read = NewRecording(FileBlob, seconds,
                                          Given(StripExtension(file)), clock, suffix)])
            /\ UNCHANGED <<recorderVars, store, log, recordings, loading, apiAvailable,
                           processingId, selectedRecording, importing, mounted,
                           started, health>>

\* saveRecording has settled: the record is in the store and at the head of
\* the list, or the add failed and the file is passed over; then the loop goes
\* on to the next supported file or ends.
ImportSaved ==
    /\ txq # <<>>
    /\ LET c == Head(txq)
           rest == SkipUnsupported(Tail(c.arg.files))
       IN  /\ c.fn = "import" /\ c.pc = "saveRecording"
           /\ IF AddAccepted(store, c.read)
              THEN /\ store' = Put(store, c.read)
                   /\ recordings' = <<c.read>> \o recordings
              ELSE UNCHANGED <<store, recordings>>
           /\ txq' = Tail(txq)
           /\ calls' = IF rest = <<>> THEN calls
                        ELSE Start(calls, [c EXCEPT !.pc = "getAudioDuration",
                                                    !.arg = [files |-> rest],
                                                    !.read = NoRecording])
           /\ importing' = (rest # <<>>)
    /\ UNCHANGED <<recorderVars, log, loading, apiAvailable, processingId,
                   selectedRecording, mounted, started, health>>

LibNext ==
    \/ LibMount
    \/ LoadSettled
    \/ ClickRefresh
    \/ HealthSettled
    \/ SelectRecording
    \/ ClickProcess
    \/ ClickProcessDetail
    \/ UpdateGet
    \/ UpdatePut
    \/ TranscribeSettled
    \/ ClickDelete
    \/ DeleteSettled
    \/ ClickImport
    \/ ImportDuration
    \/ ImportSaved

LibSpec == LibInit /\ [][LibNext]_vars

InFlight(fn) ==
    {c \in BagToSet(calls) \cup {txq[i] : i \in 1..Len(txq)} : c.fn = fn}

\* C21: transcription is treated as available only when the last health
\* answer reported status 'ok' and model_loaded true; a handleProcess invoked
\* while availability is false or unknown only alerts: it starts no call (so
\* it sends no request) and changes no record.
C21_HealthGatesTranscription ==
    [][/\ Available(apiAvailable') =>
            health' = [status |-> "ok", model_loaded |-> "true"]
       /\ \A c \in InFlight("process")' : Available(c.arg.avail)
       /\ Count("alert")' > Count("alert") =>
            /\ ~Available(apiAvailable)
            /\ store' = store
            /\ calls' = calls
            /\ txq' = txq
            /\ recordings' = recordings]_vars

C21_Witness ==
    /\ Issued("alert")
    /\ health = [status |-> "ok", model_loaded |-> "false"]
    /\ \E r \in store : r.transcriptionStatus = "completed"

\* The store transaction of the call c has run.
Stepped(c) == txq # <<>> /\ Head(txq) = c /\ txq' = Tail(txq)

\* C22: when a transcription request got a non-success response or a
\* transport failure, the handler leaves the targeted record with
\* transcriptionStatus error and with the transcription text it had before the
\* request, and it modifies no other record.
C22_FailureMarksOnlyStatus ==
    [][\A c \in InFlight("process") :
          (c.pc = "upd3.put" /\ c.resp = NULL /\ Stepped(c)) =>
              LET id == c.arg.recording.id
              IN  /\ HasId(store', id)
                  /\ Get(store', id).transcriptionStatus = "error"
                  /\ TextOf(Get(store', id)) = c.before
                  /\ {r \in store' : r.id # id} = {r \in store : r.id # id}]_vars

PutSteps == {"upd1.put", "upd2.put", "upd3.put"}

\* C23: persistence operations are atomic per record: whatever the
\* interleaving of updateRecording, deleteRecording and saveRecording, the
\* write of an updateRecording is the update applied to the record as it is in
\* the store at that moment: it overwrites no field it did not set itself and
\* re-creates no record that a deleteRecording removed in the meantime.
C23_UpdateAtomicPerRecord ==
    [][\A c \in InFlight("process") :
          (c.pc \in PutSteps /\ Stepped(c)) =>
              LET id == c.arg.recording.id
              IN  /\ HasId(store, id)
                  /\ store' = Put(store, Merge(Get(store, id),
                                               UpdatesAt(c.pc, c.resp)))]_vars

GetSteps == {"upd1.get", "upd2.get", "upd3.get"}

\* The fields of a Recording.
Fields(r) == DOMAIN r

\* C24: updateRecording(id, updates) on an id that is not in the store fails
\* ('Recording not found': no put follows) and leaves the store unchanged; on
\* a present id it changes exactly the fields named in updates and leaves
\* every other field of that record and every other record unchanged.
C24_UpdateFrame ==
    [][\A c \in InFlight("process") :
          LET id == c.arg.recording.id
              updates == UpdatesAt(c.pc, c.resp)
          IN  /\ (c.pc \in GetSteps /\ c \notin InFlight("process")'
                      /\ ~HasId(store, id)) =>
                    /\ store' = store
                    /\ \A d \in InFlight("process")' :
                          d.arg = c.arg => d.pc \notin PutSteps \/ d \in InFlight("process")
              /\ (c.pc \in PutSteps /\ Stepped(c)) =>
                    /\ HasId(store, id) /\ HasId(store', id)
                    /\ Fields(Get(store', id)) = Fields(Get(store, id)) \cup DOMAIN updates
                    /\ \A k \in Fields(Get(store', id)) :
                          Get(store', id)[k] = IF k \in DOMAIN updates THEN updates[k]
                                               ELSE Get(store, id)[k]
                    /\ {r \in store' : r.id # id} = {r \in store : r.id # id}]_vars

\* The add of the saveRecording call c has run and was accepted.
Created(c) ==
    /\ c.pc = "saveRecording"
    /\ Stepped(c)
    /\ store' # store

DistinctIds(st) == \A r1 \in st, r2 \in st : r1.id = r2.id => r1 = r2

\* What C25 says of a created record apart from its name.
CreatedWell(c) ==
    /\ c.read \in store'
    /\ c.read.transcriptionStatus = "pending"
    /\ c.read.size = BlobSize(c.read.blob)
    /\ store \subseteq store'
    /\ DistinctIds(store')

\* C25 (as stated): every record saveRecording creates has initial
\* transcriptionStatus pending, size equal to its blob size, and the custom
\* name when one is given (handleFileSelect always gives one), a name derived
\* from the creation timestamp otherwise; the ids of the stored records are
\* pairwise distinct and a create never overwrites an existing record.
C25_CreatedRecord ==
    [][\A c \in InFlight("import") :
          Created(c) =>
              /\ CreatedWell(c)
              /\ c.read.name = StripExtension(Head(c.arg.files))]_vars

\* C25 (amended): as stated, except that the record has the custom name when
\* one is given and is not empty, and a name derived from the creation
\* timestamp when none is given or the one given is empty.
C25_CreatedRecordNonEmptyName ==
    [][\A c \in InFlight("import") :
          Created(c) =>
              LET custom == StripExtension(Head(c.arg.files))
              IN  /\ CreatedWell(c)
                  /\ c.read.name = IF custom # <<>> THEN custom
                                   ELSE <<"Recording", c.read.createdAt>>]_vars

C25_Witness ==
    /\ \E r \in store : r.name = <<"talk">> /\ r.createdAt = PageLoadedAt
    /\ \E r \in store : /\ r.name = <<"Recording", PageLoadedAt>>
                         /\ r.createdAt = PageLoadedAt

(***************************************************************************)
(* The recorder page under React.StrictMode.  The entry renders the         *)
(* Recorder inside <React.StrictMode>; the mount effect returns no cleanup, *)
(* so each run of the effect invokes startRecording.  The invocations       *)
(* share the component's state and refs; the streams, the AudioContext and  *)
(* the MediaRecorder each one creates are its own (sessions[i]).  The refs  *)
(* hold the objects of the invocation that assigned them last.  The         *)
(* specification follows the invocations up to the start of the encoders.   *)
(***************************************************************************)
\* The number of times the mount effect runs: once in a production build,
\* EffectRuns times in a development build.
BuildRuns == {1, EffectRuns}

strictFrame == <<variant, search, probe, libVars, twin, popupVars, pc, duration, encoder, tracks,
                 audioContext, tickDue, timers, saves, store, clock>>

StrictInit == Init

FirstAwait(p) == IF TabInclusive(p) THEN "awaitStreamId" ELSE "awaitMicOnly"
FirstCall(p) ==
    IF TabInclusive(p) THEN Call("getMediaStreamId") ELSE Call("getUserMedia(mic)")

\* The commit of the first render: every run of the mount effect calls
\* getParams and, with valid parameters, startRecording, which runs up to its
\* first await.
StrictMount ==
    /\ pc = "mount"
    /\ \E runs \in BuildRuns :
        IF ~params.ok
        THEN /\ error' = "Invalid parameters"
             /\ pc' = "rejected"
             /\ UNCHANGED <<sessions, log>>
        ELSE /\ error' = error
             /\ pc' = "mounted"
             /\ sessions' = [i \in Invocations |->
                                IF i <= runs
                                THEN [NoSession EXCEPT !.pc = FirstAwait(params)]
                                ELSE NoSession]
             /\ log' = log \o [i \in 1..runs |-> FirstCall(params)]
    /\ UNCHANGED <<variant, search, probe, libVars, twin, popupVars, status, duration,
                   audioLevels, refVars, envVars>>

StrictStreamIdResolved(i) ==
    /\ sessions[i].pc = "awaitStreamId"
    /\ sessions' = [sessions EXCEPT ![i].pc = "awaitTabStream"]
    /\ log' = Append(log, Call("getUserMedia(tab)"))
    /\ UNCHANGED <<strictFrame, uiVars, refVars, rafPending>>

\* An awaited acquisition call of invocation i rejected: its catch block.
StrictRejected(i) ==
    /\ sessions[i].pc \in {"awaitStreamId", "awaitTabStream", "awaitMicStream",
                           "awaitMicOnly"}
    /\ \E msg \in PlatformMessages : error' = msg
    /\ status' = "stopped"
    /\ sessions' = [sessions EXCEPT ![i].pc = "done"]
    /\ log' = Append(log, Call("catch"))
    /\ UNCHANGED <<strictFrame, audioLevels, refVars, rafPending>>

\* The last synchronous stretch of invocation i, whose objects so far are s.
StrictCreateEncoder(i, s, finalStream, outcome, msg) ==
    /\ chunksRef' = <<>>
    /\ IF outcome = "constructorThrows"
       THEN /\ UNCHANGED <<mediaRecorderRef, startTimeRef>>
            /\ error' = msg
            /\ status' = "stopped"
            /\ sessions' = [sessions EXCEPT ![i] = [s EXCEPT !.pc = "done"]]
            /\ log' = Append(log, Call("catch"))
       ELSE IF outcome = "startThrows"
       THEN /\ mediaRecorderRef' = "recorder"
            /\ startTimeRef' = startTimeRef
            /\ error' = msg
            /\ status' = "stopped"
            /\ sessions' = [sessions EXCEPT ![i] =
                   [s EXCEPT !.pc = "done",
                             !.encoder = [NoEncoder EXCEPT !.state = "inactive",
                                                           !.input = finalStream]]]
            /\ log' = Append(log, Call("catch"))
       ELSE /\ mediaRecorderRef' = "recorder"
            /\ startTimeRef' = clock
            /\ error' = error
            /\ status' = "recording"
            /\ sessions' = [sessions EXCEPT ![i] =
                   [s EXCEPT !.pc = "done",
                             !.encoder = [state |-> "recording", input |-> finalStream,
                                          timeslice |-> TimesliceMs, emitted |-> 0,
                                          chunkDue |-> clock + TimesliceMs,
                                          finalPending |-> FALSE]]]
            /\ log' = Append(log, Call("MediaRecorder.start"))

StrictTabStreamResolved(i) ==
    /\ sessions[i].pc = "awaitTabStream"
    /\ LET s == [sessions[i] EXCEPT !.tracks.tabAudio = "live",
                                    !.tracks.tabVideo = "ended"]
       IN  IF UsesMixer(params)
           THEN /\ sessions' = [sessions EXCEPT ![i] = [s EXCEPT !.pc = "awaitMicStream"]]
                /\ log' = Append(log, Call("getUserMedia(mic)"))
                /\ UNCHANGED <<uiVars, refVars, rafPending>>
           ELSE /\ audioContextRef' = "context"
                /\ streamRef' = "tabStream"
                /\ micStreamRef' = micStreamRef
                /\ \E snap \in Snapshots : SetupAnalyser(snap)
                /\ \E outcome \in EncoderOutcomes, msg \in PlatformMessages :
                       StrictCreateEncoder(i,
                           [s EXCEPT !.audioContext = [state |-> "running",
                                                       edges |-> TabOnlyEdges]],
                           "tabStream", outcome, msg)
                /\ duration' = duration
    /\ UNCHANGED strictFrame

StrictMicStreamResolved(i) ==
    /\ sessions[i].pc = "awaitMicStream"
    /\ audioContextRef' = "context"
    /\ streamRef' = "tabStream"
    /\ micStreamRef' = "micStream"
    /\ \E snap \in Snapshots : SetupAnalyser(snap)
    /\ \E outcome \in EncoderOutcomes, msg \in PlatformMessages :
           StrictCreateEncoder(i,
               [sessions[i] EXCEPT !.tracks.micAudio = "live",
                                   !.audioContext = [state |-> "running",
                                                     edges |-> MixerEdges]],
               "destinationStream", outcome, msg)
    /\ UNCHANGED strictFrame

StrictMicOnlyResolved(i) ==
    /\ sessions[i].pc = "awaitMicOnly"
    /\ audioContextRef' = IF variant = "viz" THEN "context" ELSE audioContextRef
    /\ streamRef' = "micStream"
    /\ micStreamRef' = micStreamRef
    /\ \E snap \in Snapshots : SetupAnalyser(snap)
    /\ \E outcome \in EncoderOutcomes, msg \in PlatformMessages :
           StrictCreateEncoder(i,
               [sessions[i] EXCEPT !.tracks.micAudio = "live",
                                   !.audioContext =
                                       IF variant = "viz"
                                       THEN [state |-> "running", edges |-> MicOnlyEdges]
                                       ELSE NoContext],
               "micStream", outcome, msg)
    /\ UNCHANGED strictFrame

StrictNext ==
    \/ StrictMount
    \/ \E i \in Invocations : StrictStreamIdResolved(i)
    \/ \E i \in Invocations : StrictTabStreamResolved(i)
    \/ \E i \in Invocations : StrictMicStreamResolved(i)
    \/ \E i \in Invocations : StrictMicOnlyResolved(i)
    \/ \E i \in Invocations : StrictRejected(i)
    \/ LevelTick

StrictSpec == StrictInit /\ [][StrictNext]_vars

Invoked == {i \in Invocations : sessions[i].pc # "idle"}
LiveEncoders == {i \in Invocations : sessions[i].encoder.state = "recording"}
LiveContexts == {i \in Invocations : sessions[i].audioContext.state = "running"}

\* C26: at most one recording session is active in a recorder page:
\* startRecording is invoked at most once per page load, and there is never
\* more than one encoder recording or more than one audio context running.
C26_OneSessionPerPage ==
    /\ Cardinality(Invoked) <= 1
    /\ Cardinality(LiveEncoders) <= 1
    /\ Cardinality(LiveContexts) <= 1

(***************************************************************************)
(* The order of the stop transition, read off the log.                     *)
(***************************************************************************)
Positions(op) == {i \in 1..Len(log) : log[i].op = op}
Nth(S, k) == CHOOSE i \in S : Cardinality({j \in S : j <= i}) = k

\* The steps of the k-th stop transition: the calls of the k-th run of
\* stopRecording, the k-th assembly (the timeouts fire in the order they
\* were set) and the saveRecording call that follows it.
StepsOfStop(k) ==
    {i \in 1..Len(log) : /\ Nth(Positions("stopRecording"), k) < i
                         /\ i < Nth(Positions("setTimeout"), k)}
    \cup (IF Cardinality(Assemblies) >= k
          THEN LET e == Nth(Assemblies, k)
               IN  {e} \cup {i \in {e + 1} : /\ i <= Len(log)
                                            /\ log[i].op = "saveRecording"}
          ELSE {})

RankIn(order, op) == CHOOSE r \in 1..Len(order) : order[r] = op
InOrder(order) ==
    \A k \in 1..Count("stopRecording") :
        \A x, y \in StepsOfStop(k) :
            RankIn(order, log[x].op) < RankIn(order, log[y].op) => x < y

\* C27 (as stated): the stop transition performs its steps in the order
\* (a) request encoder finalize, (b) stop every track of the primary and of
\* the microphone stream, (c) close the audio context, (d) cancel the Level
\* Analyzer loop, (e) assemble the chunks, (f) persist if non-empty; no step
\* occurs before an earlier-lettered step.
C27_StopOrderAsLettered ==
    InOrder(<<"MediaRecorder.stop", "tracks.stop", "AudioContext.close",
              "cancelAnimationFrame", "assemble", "saveRecording">>)

\* C27 (amended): the stop transition performs its steps in the order
\* (d) cancel the Level Analyzer loop, (a) request encoder finalize, (b) stop
\* every track of the primary and of the microphone stream, (c) close the
\* audio context, (e) assemble the chunks, (f) persist if non-empty; no step
\* occurs before a step listed earlier.
C27_StopOrderCancelFirst ==
    InOrder(<<"cancelAnimationFrame", "MediaRecorder.stop", "tracks.stop",
              "AudioContext.close", "assemble", "saveRecording">>)

\* A stop transition that made all six steps.
C27_Witness ==
    \E k \in 1..Count("stopRecording") :
        {log[i].op : i \in StepsOfStop(k)} =
            {"cancelAnimationFrame", "MediaRecorder.stop", "tracks.stop",
             "AudioContext.close", "assemble", "saveRecording"}

\* C28: the Level Analyzer's recurring callback and the one-second duration
\* timer are both cancelled inside stopRecording: once stopRecording has
\* returned, no animation-frame callback is scheduled and no level tick
\* fires, and no duration tick fires.
C28_NoTickAfterStop ==
    [][Issued("stopRecording") =>
          /\ ~rafPending /\ ~rafPending'
          /\ tickDue' = tickDue /\ duration' = duration]_vars

\* C29: the level-analysis loop runs only while status = recording: no
\* animation-frame callback is scheduled while the status is starting, nor
\* once the session is stopped, whether by the user or by a failure of
\* startRecording after the analyser was set up.
C29_LevelLoopOnlyWhileRecording == rafPending => status = "recording"

FinalStreams == {"tabStream", "destinationStream", "micStream"}
StartLogged == log' # log /\ log'[Len(log')].op = "MediaRecorder.start"

\* C30: status = recording implies that the encoder has been created on the
\* final stream and started with the 1000 ms timeslice and that startedAt
\* has been set; startedAt is set only in the step in which the encoder's
\* start call succeeded, to the time of that step, and neither it nor the
\* encoder's stream or timeslice changes afterwards.
C30_RecordingImpliesEncoderStarted ==
    [][/\ status' = "recording" =>
            /\ mediaRecorderRef' = "recorder"
            /\ encoder'.input \in FinalStreams
            /\ encoder'.timeslice = TimesliceMs
            /\ \E i \in 1..Len(log') : log'[i].op = "MediaRecorder.start"
            /\ startTimeRef' >= PageLoadedAt
       /\ startTimeRef' # startTimeRef => StartLogged /\ startTimeRef' = clock'
       /\ Issued("MediaRecorder.start") =>
            /\ startTimeRef' = startTimeRef
            /\ encoder'.input = encoder.input
            /\ encoder'.timeslice = encoder.timeslice]_vars

\* A recording whose duration has ticked past the first second, startedAt
\* still being the time the encoder started.
C30_Witness ==
    /\ status = "recording"
    /\ Issued("MediaRecorder.start")
    /\ startTimeRef = PageLoadedAt
    /\ clock > startTimeRef
    /\ duration > 0

(***************************************************************************)
(* The recorder page over several seconds.  The same page and the same     *)
(* handlers as in Spec, for the three valid kinds of query, with the clock  *)
(* advancing in steps of half a duration interval, so that several duration *)
(* ticks and encoder chunks come due in one session.                        *)
(***************************************************************************)
MaxLongSteps == 5

HalfIntervalMs == DurationIntervalMs \div 2

TimerSearches ==
    {q \in Searches : /\ q.mode \in {Given("tab"), Given("mic"), Given("both")}
                      /\ q.deviceId = Given("mic-1")
                      /\ q.tabId = Given(<<"4", "2">>)}

TimerInit == Init /\ search \in TimerSearches

AdvanceLong ==
    /\ status = "recording" \/ timers # <<>>
    /\ clock + HalfIntervalMs <= PageLoadedAt + MaxLongSteps * HalfIntervalMs
    /\ clock' = clock + HalfIntervalMs
    /\ UNCHANGED <<paramVars, pc, uiVars, refVars, encoder, tracks, audioContext,
                   rafPending, tickDue, timers, saves, store, log>>

TimerNext ==
    \/ Mount
    \/ StreamIdResolved
    \/ TabStreamResolved
    \/ MicStreamResolved
    \/ MicOnlyResolved
    \/ AcquisitionRejected
    \/ ChunkReady
    \/ FinalChunk
    \/ DurationTick
    \/ LevelTick
    \/ StopRecording
    \/ AssembleTimeout
    \/ SaveResolved
    \/ SaveRejected
    \/ AdvanceLong

TimerSpec == TimerInit /\ [][TimerNext]_vars

WholeSecondsSince(startedAt, now) == (now - startedAt) \div MsPerSecond

\* C31: the displayed duration changes only in a duration tick taken while
\* status = recording, and the tick sets it to floor((now - startedAt)/1000),
\* whatever it was before; it never decreases and, once the encoder has
\* started, never exceeds the whole seconds elapsed since startedAt.
C31_DurationRecomputed ==
    [][/\ duration' # duration =>
            /\ status = "recording"
            /\ clock >= tickDue /\ tickDue' = tickDue + DurationIntervalMs
            /\ duration' = WholeSecondsSince(startTimeRef, clock)
       /\ duration' >= duration
       /\ IF \E i \in 1..Len(log') : log'[i].op = "MediaRecorder.start"
          THEN duration' <= WholeSecondsSince(startTimeRef', clock')
          ELSE duration' = 0]_vars

\* Two ticks have fired and the display shows two seconds, the clock being
\* past the second second.
C31_Witness ==
    /\ status = "recording"
    /\ tickDue = startTimeRef + 3 * DurationIntervalMs
    /\ duration = 2
    /\ clock > startTimeRef + 2 * DurationIntervalMs

(***************************************************************************)
(* The two recorder variants side by side.  Two pages are loaded with the  *)
(* same query, one with the visualization recorder and one with the plain  *)
(* recorder, and are given the same schedule of events.  The variables     *)
(* hold the page on turn and twin.other the page that waits.  The          *)
(* visualization page leads: it takes one step, then the plain page must   *)
(* follow with a step that brings it to the same projection (or stay put   *)
(* when the projections already agree), and the turn goes back.            *)
(***************************************************************************)
\* A page: the values of the variables of the Recorder component and of its
\* environment.
Snapshot ==
    [variant |-> variant, pc |-> pc, status |-> status, duration |-> duration,
     error |-> error, audioLevels |-> audioLevels,
     mediaRecorderRef |-> mediaRecorderRef, encoder |-> encoder,
     chunksRef |-> chunksRef, streamRef |-> streamRef,
     micStreamRef |-> micStreamRef, audioContextRef |-> audioContextRef,
     analyserRef |-> analyserRef, animationRef |-> animationRef,
     startTimeRef |-> startTimeRef, tracks |-> tracks,
     audioContext |-> audioContext, rafPending |-> rafPending,
     tickDue |-> tickDue, timers |-> timers, saves |-> saves, store |-> store,
     clock |-> clock, log |-> log]

\* The page r comes on turn.
Load(r) ==
    /\ variant' = r.variant /\ pc' = r.pc /\ status' = r.status
    /\ duration' = r.duration /\ error' = r.error /\ audioLevels' = r.audioLevels
    /\ mediaRecorderRef' = r.mediaRecorderRef /\ encoder' = r.encoder
    /\ chunksRef' = r.chunksRef /\ streamRef' = r.streamRef
    /\ micStreamRef' = r.micStreamRef /\ audioContextRef' = r.audioContextRef
    /\ analyserRef' = r.analyserRef /\ animationRef' = r.animationRef
    /\ startTimeRef' = r.startTimeRef /\ tracks' = r.tracks
    /\ audioContext' = r.audioContext /\ rafPending' = r.rafPending
    /\ tickDue' = r.tickDue /\ timers' = r.timers /\ saves' = r.saves
    /\ store' = r.store /\ clock' = r.clock /\ log' = r.log

\* The calls of the Level Analyzer, and those on the audio context.
AnalyzerCalls == {"cancelAnimationFrame"}
ContextCalls == {"AudioContext.close"}
Without(calls_, ops) == SelectSeq(calls_, LAMBDA e : e.op \notin ops)

\* The page r is in a microphone-only session: only there is the final
\* stream, which streamRef holds, the microphone stream.
MicOnly(r) == r.streamRef = "micStream"

\* The coordinator of a page: the page with the Level Analyzer state
\* (analyser, animation handle, levels, scheduled frame, the analyser's
\* connections) projected away.
Coordinator(r) ==
    [pc |-> r.pc, status |-> r.status, duration |-> r.duration, error |-> r.error,
     mediaRecorderRef |-> r.mediaRecorderRef, encoder |-> r.encoder,
     chunksRef |-> r.chunksRef, streamRef |-> r.streamRef,
     micStreamRef |-> r.micStreamRef, startTimeRef |-> r.startTimeRef,
     tracks |-> r.tracks, tickDue |-> r.tickDue, timers |-> r.timers,
     saves |-> r.saves, store |-> r.store, clock |-> r.clock,
     audioContextRef |-> r.audioContextRef,
     contextState |-> r.audioContext.state,
     log |-> Without(r.log, AnalyzerCalls)]

\* The same without the audio context of a microphone-only session.
CoordinatorSansMicContext(r) ==
    IF MicOnly(r)
    THEN [Coordinator(r) EXCEPT !.audioContextRef = NULL, !.contextState = "none",
                                !.log = Without(@, ContextCalls)]
    ELSE Coordinator(r)

\* What the plain page must reproduce of the visualization page.
Projection(r) == CoordinatorSansMicContext(r)

OtherVariant(v) == IF v = "viz" THEN "plain" ELSE "viz"

\* The queries of the pair: the three valid kinds with a device, mode both
\* without a device, and one that getParams rejects.
TwinSearches ==
    TimerSearches
    \cup {q \in Searches : /\ q.mode = Given("both")
                            /\ q.deviceId = Absent("")
                            /\ q.tabId \in {Given(<<"4", "2">>), Absent(<<>>)}}

\* Either variant leads; the other page starts from the same construction.
TwinInit ==
    /\ variant \in Variants
    /\ search \in TwinSearches
    /\ probe = NoProbe
    /\ store = {}
    /\ InitPage
    /\ InitLibrary
    /\ twin = [phase |-> "lead",
               other |-> [Snapshot EXCEPT !.variant = OtherVariant(variant)],
               mark |-> Snapshot]
    /\ InitPopup

MaxTwinSteps == 2

\* The clock of the page on turn, in steps of half a duration interval.
AdvanceTwin ==
    /\ status = "recording" \/ timers # <<>>
    /\ clock + HalfIntervalMs <= PageLoadedAt + MaxTwinSteps * HalfIntervalMs
    /\ clock' = clock + HalfIntervalMs
    /\ UNCHANGED <<paramVars, pc, uiVars, refVars, encoder, tracks, audioContext,
                   rafPending, tickDue, timers, saves, store, log>>

\* The page on turn has not taken its step yet.
OnTurn == Snapshot = twin.mark
InStep == Projection(Snapshot) = Projection(twin.other)

\* A handler of the page on turn: any one for the page that leads; for the
\* page that follows, one that brings it to the projection of the leader.
Turn(A) ==
    /\ OnTurn
    /\ twin.phase = "follow" => ~InStep
    /\ A
    /\ twin.phase = "follow" => InStep'

\* The leader has taken a step: the follower comes on turn.
HandOver ==
    /\ twin.phase = "lead"
    /\ ~OnTurn
    /\ Load(twin.other)
    /\ twin' = [phase |-> "follow", other |-> Snapshot, mark |-> twin.other]
    /\ UNCHANGED <<search, probe, libVars, sessions, popupVars>>

\* The follower is in step with the leader: the leader comes on turn again.
HandBack ==
    /\ twin.phase = "follow"
    /\ InStep
    /\ Load(twin.other)
    /\ twin' = [phase |-> "lead", other |-> Snapshot, mark |-> twin.other]
    /\ UNCHANGED <<search, probe, libVars, sessions, popupVars>>

TwinNext ==
    \/ Turn(Mount)
    \/ Turn(StreamIdResolved)
    \/ Turn(TabStreamResolved)
    \/ Turn(MicStreamResolved)
    \/ Turn(MicOnlyResolved)
    \/ Turn(AcquisitionRejected)
    \/ Turn(ChunkReady)
    \/ Turn(FinalChunk)
    \/ Turn(DurationTick)
    \/ Turn(LevelTick)
    \/ Turn(StopRecording)
    \/ Turn(AssembleTimeout)
    \/ Turn(SaveResolved)
    \/ Turn(SaveRejected)
    \/ Turn(AdvanceTwin)
    \/ HandOver
    \/ HandBack

TwinSpec == TwinInit /\ [][TwinNext]_vars

\* The follower can neither stay nor step to the projection of the leader.
FollowNext == TwinNext /\ InStep'
OutOfStep ==
    /\ twin.phase = "follow"
    /\ OnTurn
    /\ ~InStep
    /\ ~ENABLED FollowNext

\* C32 (as stated): the two recorder variants are the same coordinator: with
\* the Level Analyzer state projected away, the visualization page and the
\* plain page given the same query and the same schedule go through the same
\* status values, chunk appends, track stops, audio-context open and close
\* events and saveRecording calls.
C32_SameCoordinator ==
    twin.phase = "lead" /\ OnTurn =>
        Coordinator(Snapshot) = Coordinator(twin.other)

\* C32 (amended): the same, except that in a microphone-only session the
\* visualization recorder opens an audio context (and closes it on stop)
\* where the plain recorder opens none: whatever step one page takes, the
\* other can take a step to the same projection, the audio context of a
\* microphone-only session apart.
C32_SameCoordinatorButMicContext ==
    /\ ~OutOfStep
    /\ twin.phase = "lead" /\ OnTurn => Projection(Snapshot) = Projection(twin.other)

\* Both pages of a two-source session have stopped, each with its recording
\* saved, the visualization page having published levels on the way.
C32_Witness ==
    /\ twin.phase = "lead" /\ OnTurn
    /\ variant = "viz" /\ twin.other.variant = "plain"
    /\ micStreamRef = "micStream" /\ streamRef = "tabStream"
    /\ status = "stopped" /\ twin.other.status = "stopped"
    /\ store # {} /\ twin.other.store = store
    /\ Count("cancelAnimationFrame") = 1

(***************************************************************************)
(* The recorder page with the scheduling the platform gives: time passes   *)
(* until a pending timeout is due, a due timeout callback is run, and a     *)
(* pending saveRecording settles.  The queries are those of TimerSearches   *)
(* and the clock otherwise advances as in AdvanceTwin.                      *)
(***************************************************************************)
\* Time passes until the oldest pending timeout is due.
TimerComesDue ==
    /\ timers # <<>>
    /\ clock < Head(timers).due
    /\ clock' = Head(timers).due
    /\ UNCHANGED <<paramVars, pc, uiVars, refVars, encoder, tracks, audioContext,
                   rafPending, tickDue, timers, saves, store, log>>

SaveSettles == SaveResolved \/ SaveRejected

LiveInit == Init /\ search \in TimerSearches

LiveNext ==
    \/ Mount
    \/ StreamIdResolved
    \/ TabStreamResolved
    \/ MicStreamResolved
    \/ MicOnlyResolved
    \/ AcquisitionRejected
    \/ ChunkReady
    \/ FinalChunk
    \/ DurationTick
    \/ LevelTick
    \/ StopRecording
    \/ AssembleTimeout
    \/ SaveResolved
    \/ SaveRejected
    \/ AdvanceTwin
    \/ TimerComesDue

LiveSpec ==
    /\ LiveInit
    /\ [][LiveNext]_vars
    /\ WF_vars(TimerComesDue)
    /\ WF_vars(AssembleTimeout)
    /\ WF_vars(SaveSettles)

\* C33: once stopRecording has been invoked on a recording session, and
\* given that the delayed callback fires and saveRecording settles, the
\* session reaches status = stopped and stays there.
C33_StopLeadsToStopped == Issued("stopRecording") ~> [](status = "stopped")

\* A session stopped by the user whose recording was saved.
C33_Witness ==
    /\ Issued("stopRecording")
    /\ Issued("saveRecording")
    /\ status = "stopped"
    /\ timers = <<>> /\ saves = <<>>
    /\ store # {}

(***************************************************************************)
(* The recorder page with punctual duration ticks.  The same page and      *)
(* handlers as in TimerSpec; the timer of the duration effect is served    *)
(* on time: the clock does not move on while a tick of the interval is     *)
(* due.  A click on Stop may still come in the instant a tick is due and   *)
(* before it.                                                              *)
(***************************************************************************)
TickOverdue == status = "recording" /\ clock >= tickDue

AdvancePunctual ==
    /\ ~TickOverdue
    /\ AdvanceLong

PunctualNext ==
    \/ Mount
    \/ StreamIdResolved
    \/ TabStreamResolved
    \/ MicStreamResolved
    \/ MicOnlyResolved
    \/ AcquisitionRejected
    \/ ChunkReady
    \/ FinalChunk
    \/ DurationTick
    \/ LevelTick
    \/ StopRecording
    \/ AssembleTimeout
    \/ SaveResolved
    \/ SaveRejected
    \/ AdvancePunctual

PunctualSpec == TimerInit /\ [][PunctualNext]_vars

\* The timeout a step has just set, the save a step has just handed over.
TimeoutSet == Len(timers') = Len(timers) + 1

SaveHanded == Len(saves') = Len(saves) + 1

StartsWith(s, prefix) ==
    Len(s) >= Len(prefix) /\ SubSeq(s, 1, Len(prefix)) = prefix

Contains(s, t) ==
    \E i \in 1..(Len(s) + 1) :
        i + Len(t) - 1 <= Len(s) /\ SubSeq(s, i, i + Len(t) - 1) = t

\* SUPPORTED_PATTERNS, each with its test of a URL.
SUPPORTED_PATTERNS ==
    <<[prefix |-> "https://meet.google.com/", inner |-> "",
       name |-> "Google Meet", platform |-> "meet"],
      [prefix |-> "https://teams.microsoft.com/", inner |-> "",
       name |-> "Microsoft Teams", platform |-> "teams"],
      [prefix |-> "https://teams.live.com/", inner |-> "",
       name |-> "Microsoft Teams", platform |-> "teams"],
      [prefix |-> "https://", inner |-> ".zoom.us/",
       name |-> "Zoom", platform |-> "zoom"]>>

PatternTest(p, url) ==
    /\ StartsWith(url, p.prefix)
    /\ p.inner # "" => Contains(SubSeq(url, Len(p.prefix) + 1, Len(url)), p.inner)

\* SUPPORTED_PATTERNS.find(p => p.pattern.test(url)): the first match.
FindPlatform(url) ==
    LET hits == {i \in 1..Len(SUPPORTED_PATTERNS) : PatternTest(SUPPORTED_PATTERNS[i], url)}
    IN  IF hits = {} THEN NoPlatform
        ELSE LET first == CHOOSE i \in hits : \A j \in hits : i <= j
             IN  [name |-> SUPPORTED_PATTERNS[first].name,
                  platform |-> SUPPORTED_PATTERNS[first].platform]

\* The URLs of the active tab; "" is a tab without url.
TabUrls == {"", "https://meet.google.com/abc-defg-hij", "https://teams.live.com/v2/",
            "https://us02web.zoom.us/j/1", "https://example.com/meet.google.com/"}

\* What enumerateDevices resolves with.  Before the microphone permission is
\* granted the platform lists the inputs with empty deviceId and label.
Device(kind, deviceId, label) == [kind |-> kind, deviceId |-> deviceId, label |-> label]

DeviceLists ==
    {<<>>,
     <<Device("audioinput", "", "")>>,
     <<Device("videoinput", "cam-1", "Camera")>>,
     <<Device("audiooutput", "spk-1", "Speakers"), Device("audioinput", "mic-1", "Built-in")>>,
     <<Device("audioinput", "mic-1", "Built-in"), Device("audioinput", "mic-2", "Headset")>>,
     <<Device("audioinput", "0123456789ab", "")>>}

\* d.label || `Microphone ${d.deviceId.slice(0, 8)}`
LabelOf(d) ==
    IF d.label # "" THEN d.label
    ELSE "Microphone " \o SubSeq(d.deviceId, 1, Min(8, Len(d.deviceId)))

\* devices.filter(d => d.kind === 'audioinput').map(...)
AudioInputs(devices) ==
    LET inputs == SelectSeq(devices, LAMBDA d : d.kind = "audioinput")
    IN  [i \in 1..Len(inputs) |-> [deviceId |-> inputs[i].deviceId,
                                   label |-> LabelOf(inputs[i])]]

\* The ids of the active tab: 0 stands for a tab without id (!tab.id holds
\* of both).
PopupTabIds == {0, 7, 42}

PermissionStates == {"granted", "denied", "prompt"}

MicInclusive(mode) == mode = "mic" \/ mode = "both"

needsMicPermission == MicInclusive(captureMode) /\ micPermission # "granted"

\* The form is rendered once the tab is checked and is a meeting page.
FormShown ==
    /\ popupPc.page = "open"
    /\ ~isCheckingTab
    /\ currentPlatform # NoPlatform

popupFrame == <<variant, search, probe, libVars, sessions, twin, pc, uiVars, refVars,
                envVars, log>>

\* The mount effect: checkCurrentTab() and checkPermissionAndLoadDevices(),
\* each up to its first await.
PopupMount ==
    /\ popupPc.page = "constructed"
    /\ popupPc' = [popupPc EXCEPT !.page = "open", !.tab = "awaitQuery",
                                  !.devices = "awaitEnumerate"]
    /\ UNCHANGED <<audioDevices, selectedDevice, captureMode, micPermission, isStarting,
                   currentPlatform, isCheckingTab, windows, popupFrame>>

\* checkCurrentTab after chrome.tabs.query.
TabChecked ==
    /\ popupPc.page = "open" /\ popupPc.tab = "awaitQuery"
    /\ \/ \E url \in TabUrls :
             currentPlatform' = IF url # "" /\ FindPlatform(url) # NoPlatform
                                THEN FindPlatform(url) ELSE currentPlatform
       \/ currentPlatform' = currentPlatform
    /\ isCheckingTab' = FALSE
    /\ popupPc' = [popupPc EXCEPT !.tab = "done"]
    /\ UNCHANGED <<audioDevices, selectedDevice, captureMode, micPermission, isStarting,
                   windows, popupFrame>>

\* audioInputs.length > 0 && audioInputs[0].label
HasLabelledInputs(devices) ==
    Len(AudioInputs(devices)) > 0 /\ AudioInputs(devices)[1].label # ""

\* checkPermissionAndLoadDevices after enumerateDevices.
DevicesEnumerated ==
    /\ popupPc.page = "open" /\ popupPc.devices = "awaitEnumerate"
    /\ \/ \E devices \in DeviceLists :
             IF HasLabelledInputs(devices)
             THEN /\ micPermission' = "granted"
                  /\ audioDevices' = AudioInputs(devices)
                  /\ selectedDevice' = AudioInputs(devices)[1].deviceId
                  /\ popupPc' = [popupPc EXCEPT !.devices = "done"]
             ELSE /\ popupPc' = [popupPc EXCEPT !.devices = "awaitPermission"]
                  /\ UNCHANGED <<micPermission, audioDevices, selectedDevice>>
       \/ /\ micPermission' = "unknown"
          /\ popupPc' = [popupPc EXCEPT !.devices = "done"]
          /\ UNCHANGED <<audioDevices, selectedDevice>>
    /\ UNCHANGED <<captureMode, isStarting, currentPlatform, isCheckingTab, windows,
                   popupFrame>>

\* checkPermissionAndLoadDevices after navigator.permissions.query.
PermissionQueried ==
    /\ popupPc.page = "open" /\ popupPc.devices = "awaitPermission"
    /\ \/ \E state \in PermissionStates :
             micPermission' = IF state = "granted" THEN "granted" ELSE "unknown"
       \/ micPermission' = "unknown"
    /\ popupPc' = [popupPc EXCEPT !.devices = "done"]
    /\ UNCHANGED <<audioDevices, selectedDevice, captureMode, isStarting,
                   currentPlatform, isCheckingTab, windows, popupFrame>>

\* The "Capture Mode" select.
SelectMode ==
    /\ FormShown
    /\ \E mode \in {"tab", "mic", "both"} :
          /\ mode # captureMode
          /\ captureMode' = mode
    /\ UNCHANGED <<audioDevices, selectedDevice, micPermission, isStarting,
                   currentPlatform, isCheckingTab, popupPc, windows, popupFrame>>

\* The "Microphone" select, rendered in the modes with a microphone once the
\* permission is granted, with one option per listed device.
SelectDevice ==
    /\ FormShown
    /\ MicInclusive(captureMode) /\ micPermission = "granted"
    /\ \E i \in 1..Len(audioDevices) :
          /\ audioDevices[i].deviceId # selectedDevice
          /\ selectedDevice' = audioDevices[i].deviceId
    /\ UNCHANGED <<audioDevices, captureMode, micPermission, isStarting,
                   currentPlatform, isCheckingTab, popupPc, windows, popupFrame>>

\* A click on "Start Recording": startRecording up to chrome.tabs.query.  The
\* function is the one of the render of the click, with its captureMode and
\* selectedDevice.
ClickStart ==
    /\ FormShown
    /\ ~(needsMicPermission \/ isStarting)
    /\ isStarting' = TRUE
    /\ popupPc' = [popupPc EXCEPT !.start = "awaitQuery", !.mode = captureMode,
                                  !.device = selectedDevice]
    /\ UNCHANGED <<audioDevices, selectedDevice, captureMode, micPermission,
                   currentPlatform, isCheckingTab, windows, popupFrame>>

\* new URLSearchParams({mode, deviceId, tabId: tab.id.toString()})
RecorderQuery(mode, deviceId, tabId) ==
    [mode |-> Given(mode), deviceId |-> Given(deviceId), tabId |-> Given(toString(tabId))]

\* startRecording after chrome.tabs.query: without a tab id, or when the
\* query fails, the catch block re-enables the button; otherwise
\* chrome.windows.create is called.
StartTabQueried ==
    /\ popupPc.page = "open" /\ popupPc.start = "awaitQuery"
    /\ \/ \E id \in PopupTabIds :
             IF id = 0
             THEN /\ isStarting' = FALSE
                  /\ popupPc' = [popupPc EXCEPT !.start = "idle"]
             ELSE /\ isStarting' = isStarting
                  /\ popupPc' = [popupPc EXCEPT !.start = "awaitWindow", !.tabId = id]
       \/ /\ isStarting' = FALSE
          /\ popupPc' = [popupPc EXCEPT !.start = "idle"]
    /\ UNCHANGED <<audioDevices, selectedDevice, captureMode, micPermission,
                   currentPlatform, isCheckingTab, windows, popupFrame>>

\* startRecording after chrome.windows.create: the recorder window is open
\* and the popup closes itself, or the call failed and the catch block
\* re-enables the button.
WindowCreated ==
    /\ popupPc.page = "open" /\ popupPc.start = "awaitWindow"
    /\ \/ /\ windows' = Append(windows,
                               RecorderQuery(popupPc.mode, popupPc.device, popupPc.tabId))
          /\ popupPc' = [popupPc EXCEPT !.page = "closed", !.start = "done"]
          /\ isStarting' = isStarting
       \/ /\ windows' = windows
          /\ popupPc' = [popupPc EXCEPT !.start = "idle"]
          /\ isStarting' = FALSE
    /\ UNCHANGED <<audioDevices, selectedDevice, captureMode, micPermission,
                   currentPlatform, isCheckingTab, popupFrame>>

PopupInit ==
    /\ variant = "viz"
    /\ search = [mode |-> Given("tab"), deviceId |-> Absent(""),
                 tabId |-> Given(<<"4", "2">>)]
    /\ probe = NoProbe
    /\ store = {}
    /\ InitPage
    /\ InitLibrary
    /\ twin = NoTwin
    /\ InitPopup

PopupNext ==
    \/ PopupMount
    \/ TabChecked
    \/ DevicesEnumerated
    \/ PermissionQueried
    \/ SelectMode
    \/ SelectDevice
    \/ ClickStart
    \/ StartTabQueried
    \/ WindowCreated

PopupSpec == PopupInit /\ [][PopupNext]_vars

\* C35: every recorder window the popup has opened with a mode that includes
\* the microphone (mic or both) was given a non-empty deviceId.
C35_MicWindowHasDevice ==
    \A i \in 1..Len(windows) :
        MicInclusive(windows[i].mode.value) => windows[i].deviceId.value # ""

\* The handleProcess invocations under way for the recording `id`: those
\* awaiting a store transaction and those awaiting the transcription request.
Processing(id) ==
    Len(SelectSeq(txq, LAMBDA c : c.fn = "process" /\ c.arg.recording.id = id))
    + BagCardinality([c \in {d \in BagToSet(calls) :
                                d.fn = "process" /\ d.arg.recording.id = id}
                      |-> CopiesIn(c, calls)])

\* C36: for every recording at most one handleProcess is under way at any
\* time, and so at most one transcription request is in flight for it.
C36_OneTranscriptionPerRecording ==
    \A id \in {c.arg.recording.id : c \in InFlight("process")} :
        Processing(id) <= 1

(***************************************************************************)
(* The Recordings page with failing store requests.  The same page and     *)
(* handlers as in LibSpec; in addition a request of updateRecording may    *)
(* fail (request.onerror), which rejects the updateRecording call.  The    *)
(* store transactions and the network requests under way settle.           *)
(***************************************************************************)
\* A get or put request of an updateRecording of handleProcess has failed.
\* The first call is outside the try: the handler ends there.  The second is
\* caught, and the catch block calls the third; the third leaves through
\* finally.
UpdateRejected ==
    \E i \in 1..Len(txq) :
        LET c == txq[i]
            rest == RemoveAt(txq, i)
        IN  /\ Ready(i)
            /\ c.fn = "process"
            /\ c.pc \in {"upd1.get", "upd1.put", "upd2.get", "upd2.put",
                         "upd3.get", "upd3.put"}
            /\ txq' = IF c.pc \in {"upd2.get", "upd2.put"}
                      THEN Append(rest, [c EXCEPT !.pc = "upd3.get", !.read = NoRecording])
                      ELSE rest
            /\ processingId' = IF c.pc \in {"upd3.get", "upd3.put"} THEN NoId
                               ELSE processingId
            /\ UNCHANGED <<recorderVars, store, log, recordings, loading, apiAvailable,
                           selectedRecording, importing, calls, mounted, started,
                           health>>

\* What settles without the user: store transactions and network requests.
LibRuns ==
    \/ LoadSettled
    \/ HealthSettled
    \/ UpdateGet
    \/ UpdatePut
    \/ TranscribeSettled
    \/ DeleteSettled
    \/ ImportDuration
    \/ ImportSaved

LibSettles == LibRuns \/ UpdateRejected

\* The Recordings page of LibSpec, with the store transactions and the
\* network requests under way settling.
LibFairSpec == LibSpec /\ WF_vars(LibRuns)

FaultNext ==
    \/ LibMount
    \/ ClickRefresh
    \/ SelectRecording
    \/ ClickProcess
    \/ ClickProcessDetail
    \/ ClickDelete
    \/ ClickImport
    \/ LibSettles

FaultSpec == LibInit /\ [][FaultNext]_vars /\ WF_vars(LibSettles)

\* The handleProcess invocations that have set their record to processing
\* and have not ended yet.
Marked == {c \in InFlight("process") : c.pc \notin {"upd1.get", "upd1.put"}}

MarkedCount ==
    Len(SelectSeq(txq, LAMBDA c : c.fn = "process" /\ c.pc \notin {"upd1.get", "upd1.put"}))
    + BagCardinality([c \in {d \in BagToSet(calls) : d.fn = "process"}
                      |-> CopiesIn(c, calls)])

NoneProcessing == \A r \in store : r.transcriptionStatus # "processing"

C37_EndResetsProcessingId ==
    [][MarkedCount' < MarkedCount => processingId' = NoId]_vars

C37_NoneLeftProcessing ==
    [](InFlight("process") = {} => NoneProcessing)

C37_MarkedEnds == (Marked # {}) ~> (Marked = {})

\* C37: a handleProcess that has set its record to processing ends, whatever
\* the outcome of the request and of the store updates; when it ends it sets
\* processingId to null; and once no handleProcess is under way, no record
\* has the status processing.
C37_ProcessEndsSettled ==
    /\ C37_EndResetsProcessingId
    /\ C37_NoneLeftProcessing
    /\ C37_MarkedEnds

ListIds == {recordings[k].id : k \in 1..Len(recordings)}

StoreIds == {r.id : r \in store}

\* No import, delete or transcription is under way.
Quiet ==
    /\ InFlight("import") = {}
    /\ InFlight("delete") = {}
    /\ InFlight("process") = {}

\* The page has loaded the list from the store and no handler has been
\* started yet.
Loaded ==
    /\ mounted
    /\ ~loading
    /\ InFlight("load") = {}
    /\ started = 0
    /\ ListIds = StoreIds

\* C38: once the page has loaded the list, whenever no import, delete or
\* transcription is under way, the ids of the records in the list are the
\* ids of the records in the store.
C38_ListMatchesStoreWhenQuiet == [](Loaded => [](Quiet => ListIds = StoreIds))

----------------------------------------------------------------------------
\* C19 (as stated): formatDuration renders 65 seconds as "1:05", and a
\* session held open for 65 seconds displays 65 seconds, the value being
\* recomputed at each tick from the current time minus the start time.
C19_Renders65AsOneColon05 ==
    /\ (probe.fn = "formatDuration" /\ probe.done /\ probe.arg = 65)
            => probe.out = <<"1", ":", "0", "5">>
    /\ (probe.fn = "display" /\ probe.done
            /\ probe.arg.now - probe.arg.startedAt \in 65000..65999)
            => probe.out = [seconds |-> 65, text |-> <<"1", ":", "0", "5">>]

\* C19 (amended): formatDuration renders 65 seconds as "01:05" (minutes are
\* padded to two digits), and a tick that fires between 65 and 66 seconds
\* after the start displays 65 seconds, computed from now minus start.
C19_Renders65AsZeroOneColon05 ==
    /\ (probe.fn = "formatDuration" /\ probe.done /\ probe.arg = 65)
            => probe.out = <<"0", "1", ":", "0", "5">>
    /\ (probe.fn = "display" /\ probe.done
            /\ probe.arg.now - probe.arg.startedAt \in 65000..65999)
            => probe.out = [seconds |-> 65,
                            text |-> <<"0", "1", ":", "0", "5">>]

C19_Witness ==
    /\ probe.fn = "display"
    /\ probe.done
    /\ probe.arg.startedAt = 1000
    /\ probe.arg.now = 66999
    /\ probe.out.seconds = 65

\* C20: updateAudioLevels publishes exactly NUM_BARS values, each between 0
\* and 1; an all-zero snapshot gives all zeros and an all-255 snapshot gives
\* all ones.  Levels are numerators over LevelDen.
C20_LevelsBounded ==
    (probe.fn = "updateAudioLevels" /\ probe.done) =>
        /\ DOMAIN probe.out = 1..NUM_BARS
        /\ \A i \in 1..NUM_BARS : probe.out[i] \in 0..LevelDen
        /\ probe.arg = ConstantSnapshot(0)
                => \A i \in 1..NUM_BARS : probe.out[i] = 0
        /\ probe.arg = ConstantSnapshot(MaxByte)
                => \A i \in 1..NUM_BARS : probe.out[i] = LevelDen

C20_Witness ==
    /\ probe.fn = "updateAudioLevels"
    /\ probe.done
    /\ probe.arg = ConstantSnapshot(MaxByte)
    /\ \A i \in 1..NUM_BARS : probe.out[i] = LevelDen

============================================================================
